---------------------------- MODULE Spec2Model ----------------------------
(***************************************************************************)
(* Followup engine of wardrockay/auto-followup (package auto_followup).    *)
(*                                                                         *)
(* The document store (drafts, followup tasks), the scheduler, the         *)
(* cancellation service, the tick-driven processor, the retry service and  *)
(* the repair endpoints are modelled from the service layer of the         *)
(* package.  Dates are Python date ordinals (date.toordinal()), datetimes  *)
(* are records of an ordinal and a time of day; every datetime is UTC.     *)
(***************************************************************************)
EXTENDS Integers, Sequences, FiniteSets, TLC

(***************************************************************************)
(* Part 1.  core/business_days.py                                          *)
(***************************************************************************)

\* datetime.date(year, month, day).toordinal(): proleptic Gregorian ordinal,
\* 0001-01-01 is day 1 (civil-to-days conversion, 1970-01-01 is 719163).
DateOrd(year, month, day) ==
    LET y   == IF month <= 2 THEN year - 1 ELSE year
        era == y \div 400
        yoe == y - era * 400
        mp  == IF month > 2 THEN month - 3 ELSE month + 9
        doy == (153 * mp + 2) \div 5 + day - 1
        doe == yoe * 365 + yoe \div 4 - yoe \div 100 + doy
    IN  era * 146097 + doe - 719468 + 719163

\* date.year of the date with ordinal n (days-to-civil conversion).
YearOf(n) ==
    LET z   == n - 719163 + 719468
        era == z \div 146097
        doe == z - era * 146097
        yoe == (doe - doe \div 1460 + doe \div 36524 - doe \div 146096) \div 365
        doy == doe - (365 * yoe + yoe \div 4 - yoe \div 100)
        mp  == (5 * doy + 2) \div 153
        m   == IF mp < 10 THEN mp + 3 ELSE mp - 9
    IN  yoe + era * 400 + (IF m <= 2 THEN 1 ELSE 0)

\* date.weekday(): Monday is 0, Sunday is 6.
Weekday(n) == (n + 6) % 7

\* _calculate_easter: Meeus/Jones/Butcher, the ordinal of Easter Sunday.
calculate_easter(year) ==
    LET a == year % 19
        b == year \div 100
        c == year % 100
        d == b \div 4
        e == b % 4
        f == (b + 8) \div 25
        g == (b - f + 1) \div 3
        h == (19 * a + b - d - g + 15) % 30
        i == c \div 4
        k == c % 4
        l == (32 + 2 * e + 2 * i - h - k) % 7
        m == (a + 11 * h + 22 * l) \div 451
        month == (h + l - 7 * m + 114) \div 31
        day   == ((h + l - 7 * m + 114) % 31) + 1
    IN  DateOrd(year, month, day)

\* The fixed holidays of get_french_holidays, as <<month, day>>.
fixed_holidays ==
    { <<1, 1>>, <<5, 1>>, <<5, 8>>, <<7, 14>>, <<8, 15>>, <<11, 1>>, <<11, 11>>, <<12, 25>> }

\* A holiday set without the holidays that move with Easter.
get_fixed_holidays_only(year) ==
    { DateOrd(year, md[1], md[2]) : md \in fixed_holidays }

\* get_french_holidays(year): the set of holiday ordinals of the year.
get_french_holidays(year) ==
    { DateOrd(year, md[1], md[2]) : md \in fixed_holidays }
      \cup { calculate_easter(year) + 1,
             calculate_easter(year) + 39,
             calculate_easter(year) + 50 }

\* The years the model's dates fall in.
Years == 2023..2027

\* @lru_cache on get_french_holidays: one evaluation per year.
holidays_cache == [y \in Years |-> get_french_holidays(y)]

\* A business-day test that knows weekends only.
is_weekday(n) == Weekday(n) < 5

\* is_business_day(check_date) for a date ordinal.
is_business_day(n) ==
    IF Weekday(n) >= 5 THEN FALSE
    ELSE n \notin holidays_cache[YearOf(n)]

\* A datetime: the date ordinal and the time of day.
DateTime(n, h, mi, s, us) ==
    [ord |-> n, hour |-> h, minute |-> mi, second |-> s, microsecond |-> us]

\* A round of the loop that counts every calendar day it steps over.
abd_round_counting_every_day(st, direction) ==
    [current |-> st.current + direction, days_added |-> st.days_added + 1]

\* One round of the while loop of add_business_days: step one calendar day
\* in `direction' and count it when it is a business day.
abd_round(st, direction) ==
    LET next == st.current + direction
    IN  [current |-> next,
         days_added |-> IF is_business_day(next) THEN st.days_added + 1
                        ELSE st.days_added]

\* At most `rounds' rounds of the loop, stopping when days_to_add are counted.
RECURSIVE abd_rounds(_, _, _, _)
abd_rounds(st, direction, days_to_add, rounds) ==
    IF rounds = 0 \/ ~(st.days_added < days_to_add) THEN st
    ELSE abd_rounds(abd_round(st, direction), direction, days_to_add, rounds - 1)

\* The while loop of add_business_days, a fortnight of rounds at a time.
RECURSIVE abd_loop(_, _, _)
abd_loop(st, direction, days_to_add) ==
    IF st.days_added < days_to_add
    THEN abd_loop(abd_rounds(st, direction, days_to_add, 14), direction, days_to_add)
    ELSE st.current

Abs(n) == IF n >= 0 THEN n ELSE -n

\* add_business_days without the final replace(hour=1, ...): the time of day
\* of start_date is kept.
add_business_days_keeping_time(start_date, business_days) ==
    LET days_to_add == Abs(business_days)
        direction   == IF business_days >= 0 THEN 1 ELSE -1
        current     == abd_loop([current |-> start_date.ord, days_added |-> 0],
                                direction, days_to_add)
    IN  DateTime(current, start_date.hour, start_date.minute, start_date.second,
                 start_date.microsecond)

\* add_business_days(start_date, business_days).
add_business_days(start_date, business_days) ==
    LET days_to_add == Abs(business_days)
        direction   == IF business_days >= 0 THEN 1 ELSE -1
        current     == abd_loop([current |-> start_date.ord, days_added |-> 0],
                                direction, days_to_add)
    IN  \* current.replace(hour=1, minute=0, second=0, microsecond=0)
        DateTime(current, 1, 0, 0, 0)


(***************************************************************************)
(* Part 2.  The document store and the external world                      *)
(***************************************************************************)

VARIABLES
    drafts,   \* collection email_drafts: draft id -> document
    tasks,    \* collection email_followups: sequence of documents, the index is the id
    sched,    \* the scheduling requests in flight, one per request worker
    work,     \* the processing requests in flight (ticks and retries)
    cb,       \* the "mail-writer" circuit breaker of the process
    now,      \* the wall clock
    shifts,   \* number of shift requests served so far
    runs,     \* number of processing and retry requests started so far
    composed, \* task id -> number of generate-followup requests sent for it
    buckets,  \* RateLimiter._buckets: caller identity -> token bucket, if any
    admitted, \* caller identity -> requests admitted since the clock last moved
    reqs,     \* the rate-limited requests in flight inside RateLimiter.is_allowed
    last      \* the step just taken: operation, target, outcome, count

vars == <<drafts, tasks, sched, work, cb, now, shifts, runs, composed, buckets, admitted, reqs, last>>

\* Optional values: None or one value.
None == <<>>
Some(x) == <<x>>

DraftIds == {"d1", "d2"}
SchedProcs == {"s1", "s2"}
WorkProcs == {"w1", "w2"}
Clients == {"c1", "c2"}
ReqThreads == {"r1", "r2"}

\* A request thread outside RateLimiter.is_allowed.
IdleRequest == [pc |-> "idle", client |-> "-", t |-> 0, elapsed |-> 0, level |-> 0]

\* Most task documents the store may hold (two batches).
MaxTasks == 8
\* Most shift requests in one behaviour.
MaxShifts == 2
\* Most processing and retry requests in one behaviour.
MaxRuns == 2

\* Send times of the drafts: Monday 2024-01-08 10:00:00 and Friday
\* 2024-12-20 09:00:00, the Friday before Christmas.
SentMonday == DateTime(DateOrd(2024, 1, 8), 10, 0, 0, 0)
SentFriday == DateTime(DateOrd(2024, 12, 20), 9, 0, 0, 0)

\* The instants the clock takes, in increasing order: after both sends and
\* before any task is due; the very instant the Friday draft's first task
\* falls due; after its first three tasks; after all its tasks.
ClockInstants ==
    << DateTime(DateOrd(2024, 12, 20), 12, 0, 0, 0),
       DateTime(DateOrd(2024, 12, 26), 1, 0, 0, 0),
       DateTime(DateOrd(2025, 1, 7), 1, 0, 30, 0),
       DateTime(DateOrd(2025, 9, 11), 2, 0, 0, 0) >>

\* Seconds since 1970-01-01 00:00:00 UTC (time.time(), whole seconds).
Seconds(dt) ==
    (dt.ord - DateOrd(1970, 1, 1)) * 86400 + dt.hour * 3600 + dt.minute * 60 + dt.second

\* datetime comparison a <= b.
DtLeq(a, b) ==
    \/ Seconds(a) < Seconds(b)
    \/ Seconds(a) = Seconds(b) /\ a.microsecond <= b.microsecond

\* A draft document.  `exists' is FALSE for an id without a document.
Draft(ex, st, sa, nf, fn) ==
    [exists |-> ex, status |-> st, sent_at |-> sa, no_followup |-> nf,
     followup_number |-> fn, has_reply |-> FALSE,
     followup_ids |-> <<>>, followups_scheduled |-> FALSE]

\* The drafts the upstream sender may have left in the store: sent initial
\* drafts, a draft not yet sent, a sent draft without sent_at, an opted-out
\* draft, a draft that is itself a followup, and a missing document.
DraftProfiles ==
    { Draft(TRUE, "sent", Some(SentMonday), FALSE, 0),
      Draft(TRUE, "sent", Some(SentFriday), FALSE, 0),
      Draft(TRUE, "draft", None, FALSE, 0),
      Draft(TRUE, "sent", None, FALSE, 0),
      Draft(TRUE, "sent", Some(SentMonday), TRUE, 0),
      Draft(TRUE, "sent", Some(SentFriday), FALSE, 1),
      Draft(FALSE, "draft", None, FALSE, 0) }

\* FollowupStatus as the services use it: SCHEDULED, the legacy PENDING,
\* FAILED, DONE, CANCELLED.
FollowupStatus == {"scheduled", "pending", "failed", "done", "cancelled"}

\* A followup task document (FollowupTask as the scheduler builds it).
FollowupTask(did, fnum, days, when, st) ==
    [draft_id |-> did, followup_number |-> fnum, days_after_initial |-> days,
     scheduled_for |-> when, status |-> st,
     error_message |-> None, cancellation_reason |-> None,
     draft_id_created |-> None]

\* The record of a step.
Event(op, target, outcome, n) ==
    [op |-> op, target |-> target, outcome |-> outcome, n |-> n]

\* Sequence of the elements of a set of integers, ascending.
RECURSIVE SortedSeq(_)
SortedSeq(S) ==
    IF S = {} THEN <<>>
    ELSE LET m == CHOOSE x \in S : \A y \in S : x <= y
         IN  <<m>> \o SortedSeq(S \ {m})

\* Sequence of the elements of a set of draft ids, in document-id order.
DraftSeq(S) ==
    (IF "d1" \in S THEN <<"d1">> ELSE <<>>) \o (IF "d2" \in S THEN <<"d2">> ELSE <<>>)

(***************************************************************************)
(* Part 3.  config/settings.py, repositories.py                            *)
(***************************************************************************)

\* FollowupScheduleSettings.schedule_days.
schedule_days == <<3, 7, 10, 180>>

\* The mapping without its long-term entry: .get(180, 0) is 0.
days_to_followup_number_short_term(days_after) ==
    CASE days_after = 3 -> 1
      [] days_after = 7 -> 2
      [] days_after = 10 -> 3
      [] OTHER -> 0

\* FollowupScheduleSettings.days_to_followup_number, .get(days_after, 0).
days_to_followup_number(days_after) ==
    CASE days_after = 3 -> 1
      [] days_after = 7 -> 2
      [] days_after = 10 -> 3
      [] days_after = 180 -> 4
      [] OTHER -> 0

\* A check of existing followups that looks at 'scheduled' tasks only.
has_scheduled_followups(T, draft_id) ==
    \E i \in DOMAIN T : T[i].draft_id = draft_id /\ T[i].status = "scheduled"

\* FollowupRepository.has_existing_followups(draft_id).
has_existing_followups(T, draft_id) ==
    \E i \in DOMAIN T : T[i].draft_id = draft_id

\* FollowupRepository.create_batch(tasks): the documents appended in one
\* commit; the new ids are the next indexes.
create_batch(T, new_tasks) == T \o new_tasks

batch_ids(T, new_tasks) == [k \in 1..Len(new_tasks) |-> Len(T) + k]

\* An update of followup_ids that leaves followups_scheduled alone.
update_followup_ids_only(draft, followup_ids) ==
    [draft EXCEPT !.followup_ids = followup_ids]

\* DraftRepository.update_followup_ids: one update of both fields.
update_followup_ids(draft, followup_ids) ==
    [draft EXCEPT !.followup_ids = followup_ids, !.followups_scheduled = TRUE]

\* DraftRepository.update_followups_scheduled_flag.
update_followups_scheduled_flag(draft) ==
    [draft EXCEPT !.followups_scheduled = TRUE]

\* A status write that takes effect only on a task still awaiting processing.
update_status_if_awaiting(T, followup_id, status, error_message) ==
    IF T[followup_id].status \notin {"scheduled", "pending"} THEN T
    ELSE [T EXCEPT ![followup_id] =
            IF error_message # None
            THEN [@ EXCEPT !.status = status, !.error_message = error_message]
            ELSE [@ EXCEPT !.status = status]]

\* FollowupRepository.update_status(followup_id, status, error_message):
\* error_message is written only when one is given.
update_status(T, followup_id, status, error_message) ==
    [T EXCEPT ![followup_id] =
        IF error_message # None
        THEN [@ EXCEPT !.status = status, !.error_message = error_message]
        ELSE [@ EXCEPT !.status = status]]

\* DraftRepository.get_sent_drafts(): the sent drafts eligible for followups,
\* in document order.
get_sent_drafts(D) ==
    DraftSeq({ d \in DraftIds :
        /\ D[d].exists
        /\ D[d].status = "sent"
        /\ ~D[d].no_followup
        /\ ~(D[d].followup_number > 0)
        /\ ~(Len(D[d].followup_ids) > 0) })

\* DraftRepository.get_drafts_with_followup_ids_missing_flag().
get_drafts_with_followup_ids_missing_flag(D) ==
    { d \in DraftIds :
        D[d].exists /\ Len(D[d].followup_ids) > 0 /\ ~D[d].followups_scheduled }

\* Every task of the draft, whatever its status.
get_any_status_for_draft(T, draft_id) ==
    SortedSeq({ i \in DOMAIN T : T[i].draft_id = draft_id })

\* FollowupRepository.get_pending_for_draft: the 'scheduled' query, then the
\* legacy 'pending' query.
get_pending_for_draft(T, draft_id) ==
    SortedSeq({ i \in DOMAIN T : T[i].draft_id = draft_id /\ T[i].status = "scheduled" })
      \o SortedSeq({ i \in DOMAIN T : T[i].draft_id = draft_id /\ T[i].status = "pending" })

\* One query of FollowupRepository.get_due_followups: the documents with the
\* status value that are due at the cutoff.
due_query(T, status_value, cutoff) ==
    SortedSeq({ i \in DOMAIN T :
                  T[i].status = status_value /\ DtLeq(T[i].scheduled_for, cutoff) })

\* FollowupRepository.get_due_followups(status, before) read to its end at
\* once: for SCHEDULED the legacy 'pending' documents are queried as well.
get_due_followups(T, status, cutoff) ==
    due_query(T, status, cutoff)
      \o (IF status = "scheduled" THEN due_query(T, "pending", cutoff) ELSE <<>>)

\* FollowupRepository.get_failed_followups().
get_failed_followups(T, cutoff) == get_due_followups(T, "failed", cutoff)

\* A map of the drafts to their tasks that are still in scheduled.
get_draft_ids_with_scheduled_followups(T) ==
    [d \in { T[i].draft_id : i \in { j \in DOMAIN T : T[j].status = "scheduled" } } |->
        SortedSeq({ i \in DOMAIN T : T[i].draft_id = d /\ T[i].status = "scheduled" })]

\* FollowupRepository.get_all_draft_ids_with_followups(): draft id -> ids.
get_all_draft_ids_with_followups(T) ==
    [d \in { T[i].draft_id : i \in DOMAIN T } |->
        SortedSeq({ i \in DOMAIN T : T[i].draft_id = d })]

\* The loop of FollowupRepository.cancel_pending_for_draft over a list of ids.
RECURSIVE cancel_each(_, _)
cancel_each(T, ids) ==
    IF ids = <<>> THEN T
    ELSE cancel_each(update_status(T, Head(ids), "cancelled", None), Tail(ids))

\* FollowupRepository.cancel_pending_for_draft(draft_id): the store after it.
cancel_pending_for_draft(T, draft_id) ==
    cancel_each(T, get_pending_for_draft(T, draft_id))


(***************************************************************************)
(* Part 4.  services/scheduler.py                                          *)
(***************************************************************************)

\* The two checks of the validation in the other order.
validate_sent_at_first(draft) ==
    IF draft.sent_at = None THEN "MissingSentAt"
    ELSE IF draft.status # "sent" THEN "DraftNotSent"
    ELSE "ok"

\* SchedulerService._validate_draft_for_scheduling: the error it raises.
validate_draft_for_scheduling(draft) ==
    IF draft.status # "sent" THEN "DraftNotSent"
    ELSE IF draft.sent_at = None THEN "MissingSentAt"
    ELSE "ok"

\* scheduled_date = add_business_days(sent_at, days) for every send time a
\* draft of the model has and every entry of schedule_days, evaluated once.
followup_dates ==
    [sa \in {SentMonday, SentFriday} |->
        [k \in DOMAIN schedule_days |-> add_business_days(sa, schedule_days[k])]]

\* SchedulerService._calculate_followup_schedule(sent_at), with the draft id
\* the caller fills in.
calculate_followup_schedule(draft_id, sent_at) ==
    [k \in 1..Len(schedule_days) |->
        FollowupTask(draft_id,
                     days_to_followup_number(schedule_days[k]),
                     schedule_days[k],
                     followup_dates[sent_at][k],
                     "scheduled")]

\* The reads that open schedule_for_draft: get_by_id, the validation and
\* has_existing_followups.  "go" when the tasks are to be created, else the
\* error raised or the skip returned.
schedule_precheck(D, T, draft_id) ==
    IF ~D[draft_id].exists THEN "DraftNotFound"
    ELSE IF validate_draft_for_scheduling(D[draft_id]) # "ok"
         THEN validate_draft_for_scheduling(D[draft_id])
    ELSE IF has_existing_followups(T, draft_id) THEN "already_scheduled"
    ELSE "go"

IdleSched == [pc |-> "idle", bulk |-> FALSE, queue |-> <<>>,
              draft_id |-> "-", sent_at |-> None, ids |-> <<>>]

\* Task documents a request that has passed its checks is about to write.
Reserved == 4 * Cardinality({ p \in SchedProcs : sched[p].pc = "create" })

\* schedule_for_draft(draft_id), up to the decision to create the tasks.
ScheduleBegin(p, d) ==
    /\ sched[p].pc = "idle"
    /\ LET r == schedule_precheck(drafts, tasks, d)
       IN  IF r = "go"
           THEN /\ Len(tasks) + Reserved + 4 <= MaxTasks
                /\ sched' = [sched EXCEPT ![p] =
                      [@ EXCEPT !.pc = "create", !.draft_id = d,
                                !.sent_at = drafts[d].sent_at]]
                /\ last' = Event("schedule_for_draft", d, "validated", 0)
           ELSE /\ sched' = sched
                /\ last' = Event("schedule_for_draft", d, r, 0)
    /\ UNCHANGED <<reqs, buckets, admitted, composed, drafts, tasks, work, cb, now, shifts, runs>>

\* schedule_for_draft: create_batch commits the four task documents.
ScheduleCreate(p) ==
    /\ sched[p].pc = "create"
    /\ LET new == calculate_followup_schedule(sched[p].draft_id, sched[p].sent_at[1])
       IN  /\ tasks' = create_batch(tasks, new)
           /\ sched' = [sched EXCEPT ![p] =
                 [@ EXCEPT !.pc = "update", !.ids = batch_ids(tasks, new)]]
    /\ last' = Event("schedule_for_draft", sched[p].draft_id, "batch_committed", 0)
    /\ UNCHANGED <<reqs, buckets, admitted, composed, drafts, work, cb, now, shifts, runs>>

\* Where a request goes when schedule_for_draft is over: back to the loop of
\* schedule_all_sent_drafts, or the request is done.
AfterSchedule(s) ==
    IF s.bulk
    THEN [s EXCEPT !.pc = "bulk", !.draft_id = "-", !.sent_at = None, !.ids = <<>>]
    ELSE IdleSched

\* schedule_for_draft: update_followup_ids, then the result is returned.
ScheduleUpdate(p) ==
    /\ sched[p].pc = "update"
    /\ drafts' = [drafts EXCEPT ![sched[p].draft_id] =
                     update_followup_ids(@, sched[p].ids)]
    /\ sched' = [sched EXCEPT ![p] = AfterSchedule(@)]
    /\ last' = Event("schedule_for_draft", sched[p].draft_id, "scheduled",
                     Len(sched[p].ids))
    /\ UNCHANGED <<reqs, buckets, admitted, composed, tasks, work, cb, now, shifts, runs>>

\* schedule_for_draft: the draft update raises (the store is unreachable, the
\* request is killed): the batch stays, the draft is not updated.
ScheduleUpdateFails(p) ==
    /\ sched[p].pc = "update"
    /\ sched' = [sched EXCEPT ![p] = AfterSchedule(@)]
    /\ last' = Event("schedule_for_draft", sched[p].draft_id, "update_failed", 0)
    /\ UNCHANGED <<reqs, buckets, admitted, composed, drafts, tasks, work, cb, now, shifts, runs>>

\* schedule_all_sent_drafts: the query of get_sent_drafts.
BulkBegin(p) ==
    /\ sched[p].pc = "idle"
    /\ sched' = [sched EXCEPT ![p] =
          [@ EXCEPT !.pc = "bulk", !.bulk = TRUE, !.queue = get_sent_drafts(drafts)]]
    /\ last' = Event("schedule_all_sent_drafts", "-", "started",
                     Len(get_sent_drafts(drafts)))
    /\ UNCHANGED <<reqs, buckets, admitted, composed, drafts, tasks, work, cb, now, shifts, runs>>

\* schedule_all_sent_drafts: one round of the loop, up to the decision of
\* schedule_for_draft to create the tasks; errors are caught and recorded.
BulkNext(p) ==
    /\ sched[p].pc = "bulk"
    /\ IF sched[p].queue = <<>>
       THEN /\ sched' = [sched EXCEPT ![p] = IdleSched]
            /\ last' = Event("schedule_all_sent_drafts", "-", "returned", 0)
       ELSE LET d == Head(sched[p].queue)
                r == IF has_existing_followups(tasks, d) THEN "skipped_in_loop"
                     ELSE schedule_precheck(drafts, tasks, d)
            IN  IF r = "go"
                THEN /\ Len(tasks) + Reserved + 4 <= MaxTasks
                     /\ sched' = [sched EXCEPT ![p] =
                           [@ EXCEPT !.pc = "create", !.draft_id = d,
                                     !.sent_at = drafts[d].sent_at,
                                     !.queue = Tail(@)]]
                     /\ last' = Event("schedule_all_sent_drafts", d, "validated", 0)
                ELSE /\ sched' = [sched EXCEPT ![p] = [@ EXCEPT !.queue = Tail(@)]]
                     /\ last' = Event("schedule_all_sent_drafts", d, r, 0)
    /\ UNCHANGED <<reqs, buckets, admitted, composed, drafts, tasks, work, cb, now, shifts, runs>>

\* The loop of sync_missing_followup_ids over the drafts with tasks.
RECURSIVE sync_each(_, _, _)
sync_each(D, M, ds) ==
    IF ds = <<>> THEN D
    ELSE LET d == Head(ds)
         IN  IF ~D[d].exists \/ Len(D[d].followup_ids) > 0
             THEN sync_each(D, M, Tail(ds))
             ELSE sync_each([D EXCEPT ![d] = update_followup_ids(@, M[d])], M, Tail(ds))

\* SchedulerService.sync_missing_followup_ids(): the drafts after it.
sync_missing_followup_ids(D, T) ==
    LET M == get_all_draft_ids_with_followups(T)
    IN  sync_each(D, M, DraftSeq(DOMAIN M))

SyncFollowupIds ==
    /\ drafts' = sync_missing_followup_ids(drafts, tasks)
    /\ last' = Event("sync_missing_followup_ids", "-", "returned",
                     Cardinality({ d \in DraftIds : drafts'[d] # drafts[d] }))
    /\ UNCHANGED <<reqs, buckets, admitted, composed, tasks, sched, work, cb, now, shifts, runs>>

\* SchedulerService.update_missing_followups_scheduled_flags(): the drafts
\* after it (each selected draft is updated on its own).
update_missing_followups_scheduled_flags(D) ==
    [d \in DraftIds |->
        IF d \in get_drafts_with_followup_ids_missing_flag(D)
        THEN update_followups_scheduled_flag(D[d])
        ELSE D[d]]

UpdateScheduledFlags ==
    /\ drafts' = update_missing_followups_scheduled_flags(drafts)
    /\ last' = Event("update_missing_followups_scheduled_flags", "-", "returned",
                     Cardinality(get_drafts_with_followup_ids_missing_flag(drafts)))
    /\ UNCHANGED <<reqs, buckets, admitted, composed, tasks, sched, work, cb, now, shifts, runs>>


(***************************************************************************)
(* Part 5.  services/cancellation.py                                       *)
(***************************************************************************)

\* CancellationService.cancel_for_draft(draft_id).
CancelForDraft(d) ==
    /\ IF ~drafts[d].exists
       THEN /\ tasks' = tasks
            /\ last' = Event("cancel_for_draft", d, "DraftNotFound", 0)
       ELSE /\ tasks' = cancel_pending_for_draft(tasks, d)
            /\ last' = Event("cancel_for_draft", d, "returned",
                             Len(get_pending_for_draft(tasks, d)))
    /\ UNCHANGED <<reqs, buckets, admitted, composed, drafts, sched, work, cb, now, shifts, runs>>

(***************************************************************************)
(* Part 6.  infrastructure/circuit_breaker.py                              *)
(***************************************************************************)

\* CircuitBreakerConfig of the "mail-writer" breaker.
failure_threshold == 3
success_threshold == 2
timeout_seconds == 60

\* CircuitBreaker.__init__.
NewBreaker == [state |-> "closed", failure_count |-> 0, success_count |-> 0,
               last_failure_time |-> None]

\* A reset attempted once half of the open timeout has passed.
should_attempt_reset_after_half(b, t) ==
    IF b.last_failure_time = None THEN TRUE
    ELSE 2 * (t - b.last_failure_time[1]) >= timeout_seconds

\* CircuitBreaker._should_attempt_reset at time t (seconds).
should_attempt_reset(b, t) ==
    IF b.last_failure_time = None THEN TRUE
    ELSE t - b.last_failure_time[1] >= timeout_seconds

\* CircuitBreaker.state: the breaker after the property has been read.
breaker_state(b, t) ==
    IF b.state = "open" /\ should_attempt_reset(b, t)
    THEN [b EXCEPT !.state = "half_open", !.success_count = 0]
    ELSE b

\* A breaker that closes on the first success recorded in half_open.
record_success_closing_at_once(b) ==
    IF b.state = "half_open"
    THEN [b EXCEPT !.success_count = @ + 1, !.state = "closed", !.failure_count = 0]
    ELSE IF b.state = "closed" THEN [b EXCEPT !.failure_count = 0]
    ELSE b

\* CircuitBreaker._record_success.
record_success(b) ==
    IF b.state = "half_open"
    THEN IF b.success_count + 1 >= success_threshold
         THEN [b EXCEPT !.success_count = @ + 1, !.state = "closed", !.failure_count = 0]
         ELSE [b EXCEPT !.success_count = @ + 1]
    ELSE IF b.state = "closed" THEN [b EXCEPT !.failure_count = 0]
    ELSE b

\* A closed breaker that opens only once the threshold is exceeded.
record_failure_opening_late(b, t) ==
    LET c == [b EXCEPT !.failure_count = @ + 1, !.last_failure_time = Some(t)]
    IN  IF c.state = "half_open" THEN [c EXCEPT !.state = "open"]
        ELSE IF c.state = "closed" /\ c.failure_count > failure_threshold
             THEN [c EXCEPT !.state = "open"]
        ELSE c

\* CircuitBreaker._record_failure at time t.
record_failure(b, t) ==
    LET c == [b EXCEPT !.failure_count = @ + 1, !.last_failure_time = Some(t)]
    IN  IF c.state = "half_open" THEN [c EXCEPT !.state = "open"]
        ELSE IF c.state = "closed" /\ c.failure_count >= failure_threshold
             THEN [c EXCEPT !.state = "open"]
        ELSE c

\* CircuitBreaker.call up to the invocation of the wrapped function: the
\* breaker after the state property was read, and whether the call is let
\* through or raises CircuitBreakerOpenError.
call_enter(b, t) ==
    LET b1 == breaker_state(b, t)
    IN  [cb |-> b1,
         outcome |-> IF b1.state = "open" THEN "CircuitBreakerOpenError" ELSE "invoke"]

\* A call that records the failures of the wrapped function and not its
\* successes.
call_exit_success_unrecorded(b, answer, t) ==
    IF answer = "ok" THEN b ELSE record_failure(b, t)

\* CircuitBreaker.call after the wrapped function has answered at time t.
call_exit(b, answer, t) ==
    IF answer = "ok" THEN record_success(b) ELSE record_failure(b, t)

\* CircuitBreaker.call(func) as one step, func answering "ok" or "error".
breaker_call(b, answer, t) ==
    LET e == call_enter(b, t)
    IN  IF e.outcome = "CircuitBreakerOpenError"
        THEN [cb |-> e.cb, outcome |-> e.outcome, invoked |-> FALSE]
        ELSE [cb |-> call_exit(e.cb, answer, t), outcome |-> answer, invoked |-> TRUE]

(***************************************************************************)
(* Part 7.  services/processor.py, services/retry.py                       *)
(***************************************************************************)

\* What the CRM answers to get_lead_by_external_id and what the composer
\* answers to generate-followup, for one task.
ProcessEnvs ==
    { <<c, "-">> : c \in {"http_error", "not_found", "bad_email", "no_first_name",
                          "no_last_name", "no_partner_name", "no_website"} }
      \cup { <<"ok", m>> : m \in {"ok", "error"} }

\* Whether _build_email_request sends a lookup to the CRM for the task: it
\* calls get_lead_by_external_id once the draft is read, and the Odoo client
\* sends the request without consulting any circuit breaker.
crm_lookup_made(D, T, id) == D[T[id].draft_id].exists

\* A request built without the draft being read.
build_email_request_without_draft(D, T, id, crm) ==
    IF crm = "http_error" THEN "OdooError"
    ELSE IF crm \in {"not_found", "bad_email", "no_first_name"} THEN "TypeError"
    ELSE IF crm \in {"no_last_name", "no_partner_name", "no_website"} THEN "NameError"
    ELSE "ok"

\* ProcessorService._build_email_request: "ok", or the exception it raises.
\* The uncaught ones: ExternalServiceError built with one argument (a
\* TypeError) and OdooError, a name processor.py does not import (a NameError).
build_email_request(D, T, id, crm) ==
    IF ~D[T[id].draft_id].exists THEN "DraftNotFoundError"
    ELSE IF crm = "http_error" THEN "OdooError"
    ELSE IF crm \in {"not_found", "bad_email", "no_first_name"} THEN "TypeError"
    ELSE IF crm \in {"no_last_name", "no_partner_name", "no_website"} THEN "NameError"
    ELSE "ok"

\* ProcessorService.process_followup(task) with the world's answers env at
\* time t: the store and the breaker after it, the outcome and whether the
\* composer was called.  An exception other than DraftNotFoundError and
\* ExternalServiceError leaves the function uncaught.
process_followup(D, T, B, id, env, t) ==
    LET built == build_email_request(D, T, id, env[1])
        c     == breaker_call(B, env[2], t)
    IN  IF built = "DraftNotFoundError"
        THEN [tasks |-> update_status(T, id, "failed", Some("Draft not found")),
              cb |-> B, outcome |-> "failed", composer |-> FALSE, raised |-> FALSE]
        ELSE IF built = "OdooError"
        THEN [tasks |-> update_status(T, id, "failed", Some("Odoo error")),
              cb |-> B, outcome |-> "failed", composer |-> FALSE, raised |-> FALSE]
        ELSE IF built # "ok"
        THEN [tasks |-> T, cb |-> B, outcome |-> built,
              composer |-> FALSE, raised |-> TRUE]
        ELSE IF c.outcome = "CircuitBreakerOpenError"
        THEN [tasks |-> T, cb |-> c.cb, outcome |-> "CircuitBreakerOpenError",
              composer |-> FALSE, raised |-> TRUE]
        ELSE IF c.outcome = "error"
        THEN [tasks |-> update_status(T, id, "failed", Some("MailWriter error")),
              cb |-> c.cb, outcome |-> "failed",
              composer |-> TRUE, raised |-> FALSE]
        ELSE [tasks |-> update_status(T, id, "done", None),
              cb |-> c.cb, outcome |-> "done",
              composer |-> TRUE, raised |-> FALSE]

IdleWork == [pc |-> "idle", mode |-> "-", queue |-> <<>>, cutoff |-> None]

\* Number of generate-followup requests the composer has received for a task.
Composed(id) == IF id \in DOMAIN composed THEN composed[id] ELSE 0

\* ProcessorService.process_due_followups(): the cutoff is read and the
\* generator get_due_followups is started.  It runs the 'scheduled' query and
\* goes on to the 'pending' query when the first has nothing (left) to yield.
TickLoad(w) ==
    LET q1 == due_query(tasks, "scheduled", now)
        q2 == due_query(tasks, "pending", now)
    IN  /\ work' = [work EXCEPT ![w] =
              IF q1 # <<>>
              THEN [pc |-> "run", mode |-> "tick", queue |-> q1, cutoff |-> Some(now)]
              ELSE IF q2 # <<>>
              THEN [pc |-> "run", mode |-> "tick_legacy", queue |-> q2,
                    cutoff |-> Some(now)]
              ELSE IdleWork]
        /\ last' = Event("process_due_followups", "-",
                         IF q1 = <<>> /\ q2 = <<>> THEN "returned" ELSE "loaded",
                         IF q1 # <<>> THEN Len(q1) ELSE Len(q2))

\* A processing request, counted among the requests of the behaviour.
TickBegin(w) ==
    /\ work[w].pc = "idle"
    /\ runs < MaxRuns
    /\ runs' = runs + 1
    /\ TickLoad(w)
    /\ UNCHANGED <<reqs, buckets, admitted, composed, drafts, tasks, sched, cb, now, shifts>>

\* A processing request of the periodic trigger, which never stops sending
\* them: the requests are not counted.
TickRecurring(w) ==
    /\ work[w].pc = "idle"
    /\ TickLoad(w)
    /\ UNCHANGED <<reqs, buckets, admitted, composed, drafts, tasks, sched, cb, now, shifts, runs>>

\* RetryService.retry_all_failed(): the list of the failed tasks.
RetryBegin(w) ==
    /\ work[w].pc = "idle"
    /\ runs < MaxRuns
    /\ runs' = runs + 1
    /\ LET q == get_failed_followups(tasks, now)
       IN  /\ work' = [work EXCEPT ![w] =
                 IF q = <<>> THEN IdleWork
                 ELSE [pc |-> "run", mode |-> "retry", queue |-> q, cutoff |-> Some(now)]]
           /\ last' = Event("retry_all_failed", "-",
                            IF q = <<>> THEN "returned" ELSE "loaded", Len(q))
    /\ UNCHANGED <<reqs, buckets, admitted, composed, drafts, tasks, sched, cb, now, shifts>>

\* Where a request goes after a round of its loop on the store T: an uncaught
\* exception ends it; else the next loaded task; else, for a processing
\* request at the end of the 'scheduled' results, the 'pending' query.
after_round(wk, T, raised) ==
    IF raised THEN IdleWork
    ELSE IF Tail(wk.queue) # <<>> THEN [wk EXCEPT !.queue = Tail(@)]
    ELSE IF wk.mode = "tick" /\ due_query(T, "pending", wk.cutoff[1]) # <<>>
    THEN [wk EXCEPT !.mode = "tick_legacy",
                    !.queue = due_query(T, "pending", wk.cutoff[1])]
    ELSE IdleWork

\* One round of the loop of process_due_followups or of retry_all_failed (which
\* first resets the task to PENDING): process_followup on the next loaded task.
WorkStep(w) ==
    /\ work[w].pc = "run"
    /\ \E env \in ProcessEnvs :
          LET id == Head(work[w].queue)
              T0 == IF work[w].mode = "retry"
                    THEN update_status(tasks, id, "pending", None)
                    ELSE tasks
              r  == process_followup(drafts, T0, cb, id, env, Seconds(now))
          IN  /\ tasks' = r.tasks
              /\ cb' = r.cb
              /\ work' = [work EXCEPT ![w] = after_round(@, r.tasks, r.raised)]
              /\ composed' = IF r.composer
                              THEN (id :> Composed(id) + 1) @@ composed
                              ELSE composed
              /\ last' = [op |-> "process_followup", target |-> id,
                          outcome |-> r.outcome, n |-> IF r.composer THEN 1 ELSE 0]
    /\ UNCHANGED <<reqs, buckets, admitted, drafts, sched, now, shifts, runs>>

(***************************************************************************)
(* Part 8.  api/routes.py: shift-followups, shift-draft-followups          *)
(***************************************************************************)

\* Business days a shift request may ask for (days_shift, never 0).
ShiftDays == {-2, -1, 1, 3}

\* datetime.fromtimestamp(scheduled_for.timestamp(), tz=scheduled_for.tzinfo):
\* the same instant, to the microsecond.
from_firestore_timestamp(dt) ==
    DateTime(dt.ord, dt.hour, dt.minute, dt.second, dt.microsecond)

\* A round that shifts the task whatever its status.
shift_one_any_status(T, id, days_shift) ==
    IF id \notin DOMAIN T THEN T
    ELSE [T EXCEPT ![id].scheduled_for =
             add_business_days(from_firestore_timestamp(@), days_shift)]

\* One round of the loop of shift_followups: an unknown id and a task not in
\* 'scheduled' are skipped.
shift_one(T, id, days_shift) ==
    IF id \notin DOMAIN T THEN T
    ELSE IF T[id].status # "scheduled" THEN T
    ELSE [T EXCEPT ![id].scheduled_for =
             add_business_days(from_firestore_timestamp(@), days_shift)]

RECURSIVE shift_each(_, _, _)
shift_each(T, ids, days_shift) ==
    IF ids = <<>> THEN T
    ELSE shift_each(shift_one(T, Head(ids), days_shift), Tail(ids), days_shift)

\* shift_followups with the body {followup_ids, days_shift}.
ShiftFollowups(ids, days_shift) ==
    /\ shifts < MaxShifts
    /\ shifts' = shifts + 1
    /\ tasks' = shift_each(tasks, ids, days_shift)
    /\ last' = Event("shift_followups", "-", "returned",
                     Cardinality({ i \in DOMAIN tasks : tasks'[i] # tasks[i] }))
    /\ UNCHANGED <<reqs, buckets, admitted, composed, drafts, sched, work, cb, now, runs>>

\* shift_draft_followups(draft_id): every 'scheduled' task of the draft.
ShiftDraftFollowups(d, days_shift) ==
    /\ shifts < MaxShifts
    /\ shifts' = shifts + 1
    /\ tasks' = shift_each(tasks,
                    SortedSeq({ i \in DOMAIN tasks :
                        tasks[i].draft_id = d /\ tasks[i].status = "scheduled" }),
                    days_shift)
    /\ last' = Event("shift_draft_followups", d, "returned",
                     Cardinality({ i \in DOMAIN tasks : tasks'[i] # tasks[i] }))
    /\ UNCHANGED <<reqs, buckets, admitted, composed, drafts, sched, work, cb, now, runs>>

\* The body-less requests a client may send to shift_followups.
ShiftRequests ==
    { <<i>> : i \in 1..(Len(schedule_days) + 1) }
      \cup { <<i, i + 1>> : i \in 1..Len(schedule_days) }

\* fix_followup_times(): every 'scheduled' task whose time of day is not
\* 01:00:00 gets the same date at 01:00:00.000000.
fix_followup_times(T) ==
    [i \in DOMAIN T |->
        IF T[i].status # "scheduled" THEN T[i]
        ELSE LET current_time == T[i].scheduled_for
             IN  IF current_time.hour = 1 /\ current_time.minute = 0
                    /\ current_time.second = 0
                 THEN T[i]
                 ELSE [T[i] EXCEPT !.scheduled_for =
                          DateTime(current_time.ord, 1, 0, 0, 0)]]

FixFollowupTimes ==
    /\ tasks' = fix_followup_times(tasks)
    /\ last' = Event("fix_followup_times", "-", "returned",
                     Cardinality({ i \in DOMAIN tasks : tasks'[i] # tasks[i] }))
    /\ UNCHANGED <<reqs, buckets, admitted, composed, drafts, sched, work, cb, now, shifts, runs>>

\* A mark that sets a task to done and reopens a task that is already done.
mark_one_done_or_reopened(T, id) ==
    IF id \notin DOMAIN T THEN T
    ELSE IF T[id].status = "done" THEN update_status(T, id, "scheduled", None)
    ELSE update_status(T, id, "done", None)

\* One round of the loop of mark_followups_done: an unknown id is reported
\* not found; else update_status(id, DONE, error_message=None).
mark_one_done(T, id) ==
    IF id \notin DOMAIN T THEN T
    ELSE update_status(T, id, "done", None)

RECURSIVE mark_each_done(_, _)
mark_each_done(T, ids) ==
    IF ids = <<>> THEN T
    ELSE mark_each_done(mark_one_done(T, Head(ids)), Tail(ids))

\* mark_followups_done with the body {followup_ids}, a list that is not empty.
MarkFollowupsDone(ids) ==
    /\ ids # <<>>
    /\ tasks' = mark_each_done(tasks, ids)
    /\ last' = Event("mark_followups_done", "-", "returned",
                     Cardinality({ k \in DOMAIN ids : ids[k] \in DOMAIN tasks }))
    /\ UNCHANGED <<reqs, buckets, admitted, composed, drafts, sched, work, cb, now, shifts, runs>>

(***************************************************************************)
(* Part 8b.  api/rate_limiting.py                                          *)
(***************************************************************************)

\* RateLimitConfig.
requests_per_minute == 60
burst_size == 10

\* Resolution of the float quantities: a token is TokenUnit units, a second
\* is TokenUnit ticks of the limiter's clock.
TokenUnit == 2

\* refill_rate = requests_per_minute / 60.0 tokens per second, in units per tick.
refill_rate == requests_per_minute \div 60

\* time.time() in ticks, counted from the first instant of the clock.
Ticks(dt) ==
    (Seconds(dt) - Seconds(ClockInstants[1])) * TokenUnit
      + (dt.microsecond * TokenUnit) \div 1000000

Min(a, b) == IF a <= b THEN a ELSE b

\* RateLimiter._get_or_create_bucket: the bucket made for a new caller at time t.
NewBucket(t) ==
    [capacity |-> burst_size * TokenUnit, tokens |-> burst_size * TokenUnit,
     last_update |-> t]

\* TokenBucket.consume, the refill at time t.
refill(b, t) ==
    [b EXCEPT !.tokens = Min(b.capacity, b.tokens + (t - b.last_update) * refill_rate),
              !.last_update = t]

\* A consume that takes its token without looking at the level.
consume_unchecked(b, t) ==
    [bucket |-> [refill(b, t) EXCEPT !.tokens = @ - TokenUnit], ok |-> TRUE]

\* TokenBucket.consume(1) at time t: the bucket after it and its answer.
consume(b, t) ==
    LET r == refill(b, t)
    IN  IF r.tokens >= TokenUnit
        THEN [bucket |-> [r EXCEPT !.tokens = @ - TokenUnit], ok |-> TRUE]
        ELSE [bucket |-> r, ok |-> FALSE]

\* TokenBucket.retry_after: int((1 - tokens) / refill_rate) + 1, in seconds.
retry_after(b) ==
    IF b.tokens >= TokenUnit THEN 0
    ELSE ((TokenUnit - b.tokens) \div (TokenUnit * refill_rate)) + 1

\* RateLimiter.is_allowed for caller c at time t.
is_allowed(B, c, t) ==
    LET b0 == IF B[c] = None THEN NewBucket(t) ELSE B[c][1]
        r  == consume(b0, t)
    IN  [buckets |-> [B EXCEPT ![c] = Some(r.bucket)],
         allowed |-> r.ok,
         retry_after |-> IF r.ok THEN 0 ELSE retry_after(r.bucket)]

\* POST /cancel-followups from caller c for draft d, behind @rate_limit: a
\* refused request answers 429 with Retry-After and never reaches the view.
CancelFollowupsRequest(c, d) ==
    /\ LET a == is_allowed(buckets, c, Ticks(now))
       IN  /\ buckets' = a.buckets
           /\ IF ~a.allowed
              THEN /\ tasks' = tasks
                   /\ admitted' = admitted
                   /\ last' = Event("cancel_followups", c, "429", a.retry_after)
              ELSE /\ admitted' = [admitted EXCEPT ![c] = @ + 1]
                   /\ IF ~drafts[d].exists
                      THEN /\ tasks' = tasks
                           /\ last' = Event("cancel_followups", c, "404", 0)
                      ELSE /\ tasks' = cancel_pending_for_draft(tasks, d)
                           /\ last' = Event("cancel_followups", c, "200",
                                            Len(get_pending_for_draft(tasks, d)))
    /\ UNCHANGED <<reqs, composed, drafts, sched, work, cb, now, shifts, runs>>

\* The steps of RateLimiter.is_allowed for a request thread th.  The lock of
\* the limiter covers _get_or_create_bucket only: TokenBucket.consume reads
\* and writes the fields of the shared bucket without it, so the threads of
\* one caller interleave between any two of its reads and writes.

\* Most admissions of one caller followed between two movements of the clock.
MaxAdmitted == burst_size + 1

\* is_allowed starts: _get_or_create_bucket, under the lock.
IsAllowedBegin(th, c) ==
    /\ reqs[th].pc = "idle"
    /\ admitted[c] < MaxAdmitted
    /\ buckets' = IF buckets[c] = None
                  THEN [buckets EXCEPT ![c] = Some(NewBucket(Ticks(now)))]
                  ELSE buckets
    /\ reqs' = [reqs EXCEPT ![th] = [IdleRequest EXCEPT !.pc = "elapsed", !.client = c]]
    /\ last' = Event("is_allowed", c, "entered", 0)
    /\ UNCHANGED <<admitted, composed, drafts, tasks, sched, work, cb, now, shifts, runs>>

\* consume: now = time.time(); elapsed = now - self.last_update.
ConsumeElapsed(th) ==
    /\ reqs[th].pc = "elapsed"
    /\ LET b == buckets[reqs[th].client][1]
       IN  reqs' = [reqs EXCEPT ![th].pc = "level",
                                ![th].t = Ticks(now),
                                ![th].elapsed = Ticks(now) - b.last_update]
    /\ last' = Event("consume", reqs[th].client, "elapsed", 0)
    /\ UNCHANGED <<buckets, admitted, composed, drafts, tasks, sched, work, cb, now, shifts, runs>>

\* consume: min(self.capacity, self.tokens + elapsed * self.refill_rate) is computed.
ConsumeLevel(th) ==
    /\ reqs[th].pc = "level"
    /\ LET b == buckets[reqs[th].client][1]
       IN  reqs' = [reqs EXCEPT ![th].pc = "store",
                                ![th].level = Min(b.capacity,
                                                  b.tokens + reqs[th].elapsed * refill_rate)]
    /\ last' = Event("consume", reqs[th].client, "level", 0)
    /\ UNCHANGED <<buckets, admitted, composed, drafts, tasks, sched, work, cb, now, shifts, runs>>

\* consume: self.tokens = <the level computed>.
ConsumeStore(th) ==
    /\ reqs[th].pc = "store"
    /\ buckets' = [buckets EXCEPT ![reqs[th].client][1].tokens = reqs[th].level]
    /\ reqs' = [reqs EXCEPT ![th].pc = "stamp"]
    /\ last' = Event("consume", reqs[th].client, "stored", 0)
    /\ UNCHANGED <<admitted, composed, drafts, tasks, sched, work, cb, now, shifts, runs>>

\* consume: self.last_update = now.
ConsumeStamp(th) ==
    /\ reqs[th].pc = "stamp"
    /\ buckets' = [buckets EXCEPT ![reqs[th].client][1].last_update = reqs[th].t]
    /\ reqs' = [reqs EXCEPT ![th].pc = "check"]
    /\ last' = Event("consume", reqs[th].client, "stamped", 0)
    /\ UNCHANGED <<admitted, composed, drafts, tasks, sched, work, cb, now, shifts, runs>>

\* consume: if self.tokens >= tokens.
ConsumeCheck(th) ==
    /\ reqs[th].pc = "check"
    /\ LET b == buckets[reqs[th].client][1]
       IN  reqs' = [reqs EXCEPT ![th].pc = IF b.tokens >= TokenUnit THEN "load" ELSE "refuse"]
    /\ last' = Event("consume", reqs[th].client, "checked", 0)
    /\ UNCHANGED <<buckets, admitted, composed, drafts, tasks, sched, work, cb, now, shifts, runs>>

\* consume: self.tokens -= tokens, the read.
ConsumeLoad(th) ==
    /\ reqs[th].pc = "load"
    /\ reqs' = [reqs EXCEPT ![th].pc = "take",
                            ![th].level = buckets[reqs[th].client][1].tokens]
    /\ last' = Event("consume", reqs[th].client, "loaded", 0)
    /\ UNCHANGED <<buckets, admitted, composed, drafts, tasks, sched, work, cb, now, shifts, runs>>

\* consume: self.tokens -= tokens, the write, and return True: the request
\* is admitted.
ConsumeTake(th) ==
    /\ reqs[th].pc = "take"
    /\ buckets' = [buckets EXCEPT ![reqs[th].client][1].tokens = reqs[th].level - TokenUnit]
    /\ admitted' = [admitted EXCEPT ![reqs[th].client] = @ + 1]
    /\ reqs' = [reqs EXCEPT ![th] = IdleRequest]
    /\ last' = Event("is_allowed", reqs[th].client, "allowed", 0)
    /\ UNCHANGED <<composed, drafts, tasks, sched, work, cb, now, shifts, runs>>

\* consume returns False: is_allowed answers bucket.retry_after and the
\* request is refused with 429.
IsAllowedRefuse(th) ==
    /\ reqs[th].pc = "refuse"
    /\ reqs' = [reqs EXCEPT ![th] = IdleRequest]
    /\ last' = Event("is_allowed", reqs[th].client, "429",
                     retry_after(buckets[reqs[th].client][1]))
    /\ UNCHANGED <<buckets, admitted, composed, drafts, tasks, sched, work, cb, now, shifts, runs>>

\* The instants of the limiter's clock, half a second and more apart.
RateInstants ==
    << ClockInstants[1],
       DateTime(DateOrd(2024, 12, 20), 12, 0, 0, 500000),
       DateTime(DateOrd(2024, 12, 20), 12, 0, 3, 500000),
       DateTime(DateOrd(2024, 12, 20), 12, 0, 30, 0) >>

\* Time passes between two requests.
MomentsPass ==
    /\ \E k \in DOMAIN RateInstants :
          /\ ~DtLeq(RateInstants[k], now)
          /\ now' = RateInstants[k]
    /\ admitted' = [c \in Clients |-> 0]
    /\ last' = Event("clock", "-", "-", 0)
    /\ UNCHANGED <<reqs, buckets, composed, drafts, tasks, sched, work, cb, shifts, runs>>

(***************************************************************************)
(* Part 8c.  Calls of core/business_days.py                                *)
(***************************************************************************)

\* Most business days one call adds or subtracts.
MaxBusinessDays == 5

\* The years get_french_holidays is asked for.
HolidayYears == 1900..2100

\* The start dates of the calls: every day from Wednesday 2024-12-18 to
\* Friday 2025-01-03 (two weekends, Christmas, New Year's Day, the year
\* boundary), in the morning and just after midnight.
CalendarStarts ==
    { DateTime(n, 9, 0, 0, 0) : n \in DateOrd(2024, 12, 18)..DateOrd(2025, 1, 3) }
      \cup { DateTime(n, 0, 30, 15, 250000) :
                n \in DateOrd(2024, 12, 18)..DateOrd(2025, 1, 3) }

\* add_business_days(start_date, business_days) called on the start date.
AddBusinessDays(n) ==
    /\ last' = Event("add_business_days", now, add_business_days(now, n), n)
    /\ UNCHANGED <<reqs, buckets, admitted, composed, drafts, tasks, sched, work, cb, now,
                   shifts, runs>>

\* add_business_days called on the result of the call before, with the
\* opposite number of days.
AddBusinessDaysBack ==
    /\ last.op = "add_business_days"
    /\ last' = Event("add_business_days_back", last.outcome,
                     add_business_days(last.outcome, -last.n), -last.n)
    /\ UNCHANGED <<reqs, buckets, admitted, composed, drafts, tasks, sched, work, cb, now,
                   shifts, runs>>

\* get_french_holidays(year).
GetFrenchHolidays(year) ==
    /\ last' = Event("get_french_holidays", year, get_french_holidays(year),
                     Cardinality(get_french_holidays(year)))
    /\ UNCHANGED <<reqs, buckets, admitted, composed, drafts, tasks, sched, work, cb, now,
                   shifts, runs>>

(***************************************************************************)
(* Part 9.  The external world, the specifications                         *)
(***************************************************************************)

\* The upstream reply detector marks a sent draft as replied.
ReplyArrives(d) ==
    /\ drafts[d].exists
    /\ drafts[d].status = "sent"
    /\ ~drafts[d].has_reply
    /\ drafts' = [drafts EXCEPT ![d].has_reply = TRUE]
    /\ last' = Event("reply", d, "-", 0)
    /\ UNCHANGED <<reqs, buckets, admitted, composed, tasks, sched, work, cb, now, shifts, runs>>

\* The upstream owner of email_drafts removes a draft document.
DraftDeleted(d) ==
    /\ drafts[d].exists
    /\ drafts' = [drafts EXCEPT ![d] = Draft(FALSE, "draft", None, FALSE, 0)]
    /\ last' = Event("draft_deleted", d, "-", 0)
    /\ UNCHANGED <<reqs, buckets, admitted, composed, tasks, sched, work, cb, now, shifts, runs>>

\* Time passes.
AdvanceClock ==
    /\ \E k \in DOMAIN ClockInstants :
          /\ ~DtLeq(ClockInstants[k], now)
          /\ now' = ClockInstants[k]
    /\ last' = Event("clock", "-", "-", 0)
    /\ UNCHANGED <<reqs, buckets, admitted, composed, drafts, tasks, sched, work, cb, shifts, runs>>

\* Profiles of the second draft.
CompanionProfiles ==
    { Draft(TRUE, "sent", Some(SentMonday), FALSE, 0),
      Draft(FALSE, "draft", None, FALSE, 0) }

Init ==
    /\ drafts \in { f \in [DraftIds -> DraftProfiles] : f["d2"] \in CompanionProfiles }
    /\ tasks = <<>>
    /\ sched = [p \in SchedProcs |-> IdleSched]
    /\ work = [w \in WorkProcs |-> IdleWork]
    /\ cb = NewBreaker
    /\ now = ClockInstants[1]
    /\ shifts = 0
    /\ runs = 0
    /\ composed = <<>>
    /\ buckets = [c \in Clients |-> None]
    /\ admitted = [c \in Clients |-> 0]
    /\ reqs = [th \in ReqThreads |-> IdleRequest]
    /\ last = Event("init", "-", "-", 0)

\* The scheduling, repair and cancellation requests, two schedulers at a time.
Next ==
    \/ \E p \in SchedProcs, d \in DraftIds : ScheduleBegin(p, d)
    \/ \E p \in SchedProcs : ScheduleCreate(p)
    \/ \E p \in SchedProcs : ScheduleUpdate(p)
    \/ \E p \in SchedProcs : ScheduleUpdateFails(p)
    \/ \E p \in SchedProcs : BulkBegin(p)
    \/ \E p \in SchedProcs : BulkNext(p)
    \/ SyncFollowupIds
    \/ UpdateScheduledFlags
    \/ \E d \in DraftIds : CancelForDraft(d)

Spec == Init /\ [][Next]_vars

\* A sent draft, ready to be scheduled.
Eligible(sent_at) == Draft(TRUE, "sent", Some(sent_at), FALSE, 0)

\* The shift requests on the tasks one scheduler creates.
InitShift ==
    /\ Init
    /\ drafts["d1"] \in {Eligible(SentMonday), Eligible(SentFriday)}
    /\ ~drafts["d2"].exists

NextShift ==
    \/ \E d \in DraftIds : ScheduleBegin("s1", d)
    \/ ScheduleCreate("s1")
    \/ ScheduleUpdate("s1")
    \/ \E d \in DraftIds : CancelForDraft(d)
    \/ \E ids \in ShiftRequests, k \in ShiftDays : ShiftFollowups(ids, k)
    \/ \E d \in DraftIds, k \in ShiftDays : ShiftDraftFollowups(d, k)
    \/ FixFollowupTimes

SpecShift == InitShift /\ [][NextShift]_vars

\* The lists of task ids a repair request names: one task, that task and a
\* second, a task and an id no task has; the business days a repair shift asks for.
RepairRequests == { <<1>>, <<1, 2>>, <<4, Len(schedule_days) + 1>> }
RepairDays == {-1, 3}

\* The repair requests (sync of the task ids, missing flags, shift, mark done)
\* around one scheduler whose draft update may fail.
NextRepair ==
    \/ \E d \in DraftIds : ScheduleBegin("s1", d)
    \/ ScheduleCreate("s1")
    \/ ScheduleUpdate("s1")
    \/ ScheduleUpdateFails("s1")
    \/ \E d \in DraftIds : CancelForDraft(d)
    \/ SyncFollowupIds
    \/ UpdateScheduledFlags
    \/ \E ids \in RepairRequests, k \in RepairDays : ShiftFollowups(ids, k)
    \/ \E ids \in RepairRequests : MarkFollowupsDone(ids)

SpecRepair == InitShift /\ [][NextRepair]_vars

\* The worker: processing and retry requests on the tasks of one draft, while
\* the clock advances, replies arrive and cancellations are requested.
InitProcess ==
    /\ Init
    /\ drafts["d1"] = Eligible(SentFriday)
    /\ ~drafts["d2"].exists

NextProcess ==
    \/ \E d \in DraftIds : ScheduleBegin("s1", d)
    \/ ScheduleCreate("s1")
    \/ ScheduleUpdate("s1")
    \/ \E d \in DraftIds : CancelForDraft(d)
    \/ TickBegin("w1")
    \/ RetryBegin("w1")
    \/ WorkStep("w1")
    \/ \E d \in DraftIds : ReplyArrives(d)
    \/ AdvanceClock

SpecProcess == InitProcess /\ [][NextProcess]_vars

\* Processing requests one after the other, never a retry request, while drafts
\* are cancelled or removed and the clock advances.
NextTicks ==
    \/ \E d \in DraftIds : ScheduleBegin("s1", d)
    \/ ScheduleCreate("s1")
    \/ ScheduleUpdate("s1")
    \/ \E d \in DraftIds : CancelForDraft(d)
    \/ \E d \in DraftIds : DraftDeleted(d)
    \/ TickBegin("w1")
    \/ WorkStep("w1")
    \/ AdvanceClock

SpecTicks == InitProcess /\ [][NextTicks]_vars

\* The store once schedule_for_draft("d1") has returned, no other request
\* served yet.
ScheduledStore ==
    /\ drafts = [d \in DraftIds |->
                    IF d = "d1"
                    THEN update_followup_ids(Eligible(SentFriday), <<1, 2, 3, 4>>)
                    ELSE Draft(FALSE, "draft", None, FALSE, 0)]
    /\ tasks = create_batch(<<>>, calculate_followup_schedule("d1", SentFriday))
    /\ sched = [p \in SchedProcs |-> IdleSched]
    /\ work = [w \in WorkProcs |-> IdleWork]
    /\ cb = NewBreaker
    /\ shifts = 0
    /\ runs = 0
    /\ composed = <<>>
    /\ buckets = [c \in Clients |-> None]
    /\ admitted = [c \in Clients |-> 0]
    /\ reqs = [th \in ReqThreads |-> IdleRequest]
    /\ last = Event("init", "-", "-", 0)

\* That store when the first three tasks have fallen due.
InitScheduled ==
    /\ ScheduledStore
    /\ now = ClockInstants[3]

\* Two processing requests served at the same time.
NextOverlap ==
    \/ \E w \in WorkProcs : TickBegin(w)
    \/ \E w \in WorkProcs : WorkStep(w)

SpecOverlap == InitScheduled /\ [][NextOverlap]_vars

\* The periodic trigger keeps sending processing requests to one worker on
\* the scheduled store, and every round of a request comes to its end.
NextRecurring ==
    \/ TickRecurring("w1")
    \/ WorkStep("w1")

\* The scheduled store at the instant all four tasks are due.
InitRecurring ==
    /\ ScheduledStore
    /\ now = ClockInstants[4]

SpecRecurring ==
    /\ InitRecurring
    /\ [][NextRecurring]_vars
    /\ WF_vars(TickRecurring("w1"))
    /\ WF_vars(WorkStep("w1"))

\* The rate-limited control requests of two callers, one at a time.
InitRate ==
    /\ ScheduledStore
    /\ now = ClockInstants[1]

NextRate ==
    \/ \E c \in Clients, d \in DraftIds : CancelFollowupsRequest(c, d)
    \/ MomentsPass

SpecRate == InitRate /\ [][NextRate]_vars

\* Half a second passes while requests are inside the limiter.
HalfSecondPasses ==
    /\ now = RateInstants[1]
    /\ now' = RateInstants[2]
    /\ admitted' = [c \in Clients |-> 0]
    /\ last' = Event("clock", "-", "-", 0)
    /\ UNCHANGED <<buckets, reqs, composed, drafts, tasks, sched, work, cb, shifts, runs>>

\* The rate-limited requests of one caller, two request threads at a time
\* inside the limiter.
NextThreads ==
    \/ \E th \in ReqThreads :
          \/ IsAllowedBegin(th, "c1")
          \/ ConsumeElapsed(th)
          \/ ConsumeLevel(th)
          \/ ConsumeStore(th)
          \/ ConsumeStamp(th)
          \/ ConsumeCheck(th)
          \/ ConsumeLoad(th)
          \/ ConsumeTake(th)
          \/ IsAllowedRefuse(th)
    \/ HalfSecondPasses

SpecThreads == InitRate /\ [][NextThreads]_vars

\* The calls of the business-day functions, on a store without documents.
InitCalendar ==
    /\ drafts = [d \in DraftIds |-> Draft(FALSE, "draft", None, FALSE, 0)]
    /\ tasks = <<>>
    /\ sched = [p \in SchedProcs |-> IdleSched]
    /\ work = [w \in WorkProcs |-> IdleWork]
    /\ cb = NewBreaker
    /\ now \in CalendarStarts
    /\ shifts = 0
    /\ runs = 0
    /\ composed = <<>>
    /\ buckets = [c \in Clients |-> None]
    /\ admitted = [c \in Clients |-> 0]
    /\ reqs = [th \in ReqThreads |-> IdleRequest]
    /\ last = Event("init", "-", "-", 0)

NextCalendar ==
    \/ \E n \in (-MaxBusinessDays)..MaxBusinessDays : AddBusinessDays(n)
    \/ AddBusinessDaysBack

SpecCalendar == InitCalendar /\ [][NextCalendar]_vars

\* The holiday sets of the years, asked for one after another.
InitHolidays ==
    /\ InitCalendar
    /\ now = DateTime(DateOrd(2024, 12, 18), 9, 0, 0, 0)

NextHolidays == \E year \in HolidayYears : GetFrenchHolidays(year)

SpecHolidays == InitHolidays /\ [][NextHolidays]_vars

\* The instants of the breaker's clock (time.time()), seconds apart.
BreakerInstants ==
    << ClockInstants[1],
       DateTime(DateOrd(2024, 12, 20), 12, 0, 30, 0),
       DateTime(DateOrd(2024, 12, 20), 12, 0, 59, 0),
       DateTime(DateOrd(2024, 12, 20), 12, 1, 0, 0),
       DateTime(DateOrd(2024, 12, 20), 12, 1, 59, 0),
       DateTime(DateOrd(2024, 12, 20), 12, 2, 0, 0),
       DateTime(DateOrd(2024, 12, 20), 12, 3, 30, 0) >>

\* Time passes between two calls through the breaker.
SecondsPass ==
    /\ \E k \in DOMAIN BreakerInstants :
          /\ ~DtLeq(BreakerInstants[k], now)
          /\ now' = BreakerInstants[k]
    /\ last' = Event("clock", "-", "-", 0)
    /\ UNCHANGED <<reqs, buckets, admitted, composed, drafts, tasks, sched, work, cb, shifts, runs>>

\* A thread enters CircuitBreaker.call: it is refused, or it starts the
\* wrapped function.
CallEnter(w) ==
    /\ work[w].pc = "idle"
    /\ LET e == call_enter(cb, Seconds(now))
       IN  /\ cb' = e.cb
           /\ work' = [work EXCEPT ![w] =
                 IF e.outcome = "invoke"
                 THEN [pc |-> "in_func", mode |-> "call", queue |-> <<>>, cutoff |-> None]
                 ELSE IdleWork]
           /\ last' = Event("call", w, e.outcome, IF e.outcome = "invoke" THEN 1 ELSE 0)
    /\ UNCHANGED <<reqs, buckets, admitted, composed, drafts, tasks, sched, now, shifts, runs>>

\* The wrapped function returns or raises, and CircuitBreaker.call records it.
CallExit(w) ==
    /\ work[w].pc = "in_func"
    /\ \E answer \in {"ok", "error"} :
          /\ cb' = call_exit(cb, answer, Seconds(now))
          /\ last' = Event("call_return", w, answer, 0)
    /\ work' = [work EXCEPT ![w] = IdleWork]
    /\ UNCHANGED <<reqs, buckets, admitted, composed, drafts, tasks, sched, now, shifts, runs>>

\* CircuitBreaker.reset().
BreakerReset ==
    /\ cb' = NewBreaker
    /\ last' = Event("reset", "-", "-", 0)
    /\ UNCHANGED <<reqs, buckets, admitted, composed, drafts, tasks, sched, work, now, shifts, runs>>

\* The breaker alone, called by two threads.
NextBreaker ==
    \/ \E w \in WorkProcs : CallEnter(w)
    \/ \E w \in WorkProcs : CallExit(w)
    \/ BreakerReset
    \/ SecondsPass

SpecBreaker == InitProcess /\ [][NextBreaker]_vars


(***************************************************************************)
(* Part 10.  Properties                                                    *)
(***************************************************************************)

\* Ids of the tasks of draft d.
TasksOf(d) == { i \in DOMAIN tasks : tasks[i].draft_id = d }

\* Outcomes of the step where schedule_for_draft reads and decides.
CallOutcomes ==
    {"validated", "DraftNotFound", "DraftNotSent", "MissingSentAt", "already_scheduled"}

\* The step taken is schedule_for_draft reading and deciding.
ScheduleCallStep ==
    last'.op = "schedule_for_draft" /\ last'.outcome \in CallOutcomes

\* The (business_days_after, followup_number) pairs of the specification.
ValidPairs == { <<3, 1>>, <<7, 2>>, <<10, 3>>, <<180, 4>> }

PairOf(t) == <<t.days_after_initial, t.followup_number>>

\* C1: in every reachable state each draft has at most 4 tasks and no two
\* tasks of the same draft share a followup_number.
C1_AtMostFourDistinctTasks ==
    \A d \in DraftIds :
        /\ Cardinality(TasksOf(d)) <= 4
        /\ \A i, j \in TasksOf(d) :
              i # j => tasks[i].followup_number # tasks[j].followup_number

\* C2: schedule_for_draft called on a sent draft that already has a task
\* returns scheduled_count = 0 with the 'already scheduled' skip, creates no
\* task and leaves the tasks (and the draft) as they are.
C2_ScheduleIdempotent ==
    [][ ( /\ ScheduleCallStep
          /\ drafts[last'.target].exists
          /\ drafts[last'.target].status = "sent"
          /\ TasksOf(last'.target) # {} )
        => ( /\ last'.outcome = "already_scheduled"
             /\ last'.n = 0
             /\ tasks' = tasks
             /\ drafts' = drafts
             /\ sched' = sched ) ]_vars

\* C2 witness: a second call answered 'already scheduled' after a first call
\* stored its four task ids on the draft.
C2_Witness ==
    /\ last.op = "schedule_for_draft"
    /\ last.outcome = "already_scheduled"
    /\ Len(drafts[last.target].followup_ids) = 4
    /\ Cardinality(TasksOf(last.target)) = 4

\* C3: a successful schedule_for_draft(d) creates exactly four tasks for d,
\* all scheduled, with the pairs (3,1), (7,2), (10,3), (180,4), and reports 4;
\* and every task of every state carries one of these pairs.
C3_FourTasksFixedPairs ==
    [][ /\ \A i \in DOMAIN tasks' : PairOf(tasks'[i]) \in ValidPairs
        /\ (last'.op = "schedule_for_draft" /\ last'.outcome = "batch_committed")
              => LET new == (Len(tasks) + 1)..Len(tasks')
                 IN  /\ Cardinality(new) = 4
                     /\ SubSeq(tasks', 1, Len(tasks)) = tasks
                     /\ \A i \in new : /\ tasks'[i].draft_id = last'.target
                                       /\ tasks'[i].status = "scheduled"
                     /\ { PairOf(tasks'[i]) : i \in new } = ValidPairs
        /\ (last'.op = "schedule_for_draft" /\ last'.outcome = "scheduled")
              => last'.n = 4 ]_vars

\* C3 witness: schedule_for_draft has returned scheduled_count = 4.
C3_Witness ==
    /\ last.op = "schedule_for_draft"
    /\ last.outcome = "scheduled"
    /\ last.n = 4
    /\ { PairOf(tasks[i]) : i \in TasksOf(last.target) } = ValidPairs

\* C4: schedule_for_draft checks, in this order, that the draft exists (else
\* DraftNotFound), that it is sent (else DraftNotSent), that sent_at is
\* present (else MissingSentAt); on these errors no task is created and the
\* draft is not modified.
C4_ValidationOrder ==
    [][ ScheduleCallStep
        => LET d == drafts[last'.target]
               o == last'.outcome
           IN  /\ (o = "DraftNotFound") <=> ~d.exists
               /\ (o = "DraftNotSent") <=> (d.exists /\ d.status # "sent")
               /\ (o = "MissingSentAt")
                     <=> (d.exists /\ d.status = "sent" /\ d.sent_at = None)
               /\ o \in {"DraftNotFound", "DraftNotSent", "MissingSentAt"}
                     => (tasks' = tasks /\ drafts' = drafts /\ sched' = sched) ]_vars

\* C4 witness: a draft that is neither sent nor has sent_at was refused with
\* DraftNotSent.
C4_Witness ==
    /\ last.op = "schedule_for_draft"
    /\ last.outcome = "DraftNotSent"
    /\ drafts[last.target].sent_at = None

\* A draft the specification excludes from scheduling.
Excluded(d) == d.no_followup \/ d.followup_number >= 1

\* C5: schedule_for_draft on a sent draft with no_followup = true or
\* followup_number >= 1 returns a skip with scheduled_count = 0 and creates
\* nothing; no task of any state references such a draft.
C5_NeverScheduleExcluded ==
    [][ /\ \A i \in DOMAIN tasks' : ~Excluded(drafts'[tasks'[i].draft_id])
        /\ ( /\ ScheduleCallStep
             /\ drafts[last'.target].exists
             /\ drafts[last'.target].status = "sent"
             /\ drafts[last'.target].sent_at # None
             /\ Excluded(drafts[last'.target]) )
           => ( /\ last'.outcome # "validated"
                /\ last'.n = 0
                /\ tasks' = tasks
                /\ sched' = sched ) ]_vars

\* C6: every draft has followups_scheduled = true if and only if its
\* followup_ids is non-empty.
C6_FlagIffIds ==
    \A d \in DraftIds :
        drafts[d].followups_scheduled <=> (Len(drafts[d].followup_ids) > 0)

\* C6 witness: the sync of task ids has just filled the followup_ids of a
\* draft whose own update never ran.
C6_Witness ==
    /\ last.op = "sync_missing_followup_ids"
    /\ last.n > 0
    /\ \E d \in DraftIds :
          drafts[d].followups_scheduled /\ Len(drafts[d].followup_ids) = 4

\* The step taken is cancel_for_draft on an existing draft.
CancelStep == last'.op = "cancel_for_draft" /\ last'.outcome = "returned"

\* C8: cancel_for_draft(d) leaves the scheduled task with
\* business_days_after = 180 in scheduled and moves every other scheduled
\* task of d to cancelled.
C8_CancelKeepsLongTerm ==
    [][ CancelStep
        => \A i \in TasksOf(last'.target) :
              tasks[i].status = "scheduled"
                 => tasks'[i].status =
                       IF tasks[i].days_after_initial = 180 THEN "scheduled"
                       ELSE "cancelled" ]_vars

C10_RepliedTaskCancelled ==
    [][ \A w \in WorkProcs :
          ( /\ last'.op = "process_followup"
            /\ work[w].pc = "run"
            /\ work[w].mode = "tick"
            /\ Head(work[w].queue) = last'.target
            /\ tasks[last'.target].status = "scheduled"
            /\ DtLeq(tasks[last'.target].scheduled_for, now)
            /\ drafts[tasks[last'.target].draft_id].has_reply )
          => ( /\ tasks'[last'.target].status = "cancelled"
               /\ tasks'[last'.target].cancellation_reason = Some("prospect_replied")
               /\ last'.n = 0 ) ]_vars

\* The step is one round of the loop of a processing request served by w.
TickStepOf(w) ==
    /\ last'.op = "process_followup"
    /\ work[w].pc = "run"
    /\ work[w].mode \in {"tick", "tick_legacy"}
    /\ work'[w] # work[w]

\* The task is due at the current instant.
Due(i) == DtLeq(tasks[i].scheduled_for, now)

\* C11: process_due_followups(now) acts only on tasks with status scheduled
\* and scheduled_for <= now: it loads no other task, a round of its loop
\* leaves unchanged every task that is not yet due or is done, failed or
\* cancelled, and when no task is due it returns an empty result without
\* error.
C11_TickActsOnlyOnDueScheduled ==
    [][ /\ last'.op = "process_due_followups"
           => /\ tasks' = tasks
              /\ \A w \in WorkProcs : \A k \in DOMAIN work'[w].queue :
                    work'[w] # work[w]
                    => /\ tasks[work'[w].queue[k]].status = "scheduled"
                       /\ Due(work'[w].queue[k])
              /\ (\A i \in DOMAIN tasks : ~(tasks[i].status = "scheduled" /\ Due(i)))
                    => /\ last'.outcome = "returned"
                       /\ last'.n = 0
                       /\ work' = work
        /\ \A w \in WorkProcs : TickStepOf(w)
           => \A i \in DOMAIN tasks :
                 (~Due(i) \/ tasks[i].status \in {"done", "failed", "cancelled"})
                 => tasks'[i] = tasks[i] ]_vars

\* C12: within one processing request, a failure while processing one task
\* (missing draft, CRM lookup error, missing or malformed CRM field, composer
\* error) is recorded on that task only, and every other due task of the
\* request is still processed and gets its own outcome.
C12_FailureStaysOnItsTask ==
    [][ \A w \in WorkProcs :
          (TickStepOf(w) /\ last'.outcome # "CircuitBreakerOpenError")
          => LET id == Head(work[w].queue)
             IN  /\ \A i \in DOMAIN tasks : i # id => tasks'[i] = tasks[i]
                 /\ last'.outcome # "done"
                    => /\ tasks'[id].status = "failed"
                       /\ tasks'[id].error_message # None
                 /\ Tail(work[w].queue) # <<>>
                    => /\ work'[w].pc = "run"
                       /\ work'[w].queue = Tail(work[w].queue) ]_vars

\* C13: for a due task that passes the draft, reply and CRM checks the
\* composer's outcome determines the task's state: on composer success the
\* task becomes done and stores the draft_id_created the composer returned; on
\* composer failure the task becomes failed with the error message recorded.
C13_ComposerOutcomeDecides ==
    [][ \A w \in WorkProcs :
          (TickStepOf(w) /\ last'.n = 1)
          => LET id == Head(work[w].queue)
             IN  /\ last'.outcome \in {"done", "failed"}
                 /\ tasks'[id].status = last'.outcome
                 /\ last'.outcome = "done" => tasks'[id].draft_id_created # None
                 /\ last'.outcome = "failed" => tasks'[id].error_message # None ]_vars

\* C14: when the processor handles a due task whose referenced draft does not
\* exist, the task is marked failed with the draft-not-found error, the
\* composer is not invoked, and the request goes on with its next task.
C14_MissingDraftFailsTask ==
    [][ \A w \in WorkProcs :
          (TickStepOf(w) /\ ~drafts[tasks[Head(work[w].queue)].draft_id].exists)
          => LET id == Head(work[w].queue)
             IN  /\ tasks'[id].status = "failed"
                 /\ tasks'[id].error_message = Some("Draft not found")
                 /\ last'.outcome = "failed"
                 /\ last'.n = 0
                 /\ composed' = composed
                 /\ cb' = cb
                 /\ Tail(work[w].queue) # <<>>
                    => /\ work'[w].pc = "run"
                       /\ work'[w].queue = Tail(work[w].queue) ]_vars

\* A task of a removed draft has just been marked failed, the composer was
\* never called for it, and the request still has tasks to process.
C14_Witness ==
    /\ last.op = "process_followup"
    /\ last.outcome = "failed"
    /\ tasks[last.target].status = "failed"
    /\ tasks[last.target].error_message = Some("Draft not found")
    /\ ~drafts[tasks[last.target].draft_id].exists
    /\ Composed(last.target) = 0
    /\ work["w1"].pc = "run"
    /\ work["w1"].mode = "tick"

\* The CRM answers that fail the checks of the request builder: no lead, an
\* email that is empty or lacks '@', a missing first_name, last_name,
\* partner_name or website.
CrmRejects ==
    {"not_found", "bad_email", "no_first_name", "no_last_name", "no_partner_name",
     "no_website"}

\* C15: when the CRM record for the task's x_external_id is absent, or its
\* email is empty or lacks '@', or first_name, last_name, partner_name or
\* website is missing, the processor marks the task failed with a descriptive
\* reason and does not invoke the composer.
C15_CrmRejectFailsTask ==
    [][ \A w \in WorkProcs : \A crm \in CrmRejects :
          LET id == Head(work[w].queue)
              r  == process_followup(drafts, tasks, cb, id, <<crm, "-">>, Seconds(now))
          IN  ( /\ TickStepOf(w)
                /\ drafts[tasks[id].draft_id].exists
                /\ tasks' = r.tasks
                /\ cb' = r.cb
                /\ last'.outcome = r.outcome )
              => ( /\ tasks'[id].status = "failed"
                   /\ tasks'[id].error_message # None
                   /\ last'.n = 0
                   /\ composed' = composed ) ]_vars

\* The statuses a handled task is left in.
Handled == {"done", "failed", "cancelled"}

\* Composer requests per task never exceed one.
ComposedAtMostOnce == \A i \in DOMAIN composed : composed[i] <= 1

\* C16: with non-overlapping processing requests and no retry, a task is
\* picked up at most once: a round of the loop leaves its task in done, failed
\* or cancelled, a task in one of these statuses stays in them and is never
\* loaded by a later request, and the composer is invoked at most once per
\* task.
C16_PickedUpAtMostOnce ==
    [][ /\ \A w \in WorkProcs :
              (TickStepOf(w) /\ last'.outcome # "CircuitBreakerOpenError")
              => tasks'[Head(work[w].queue)].status \in Handled
        /\ \A i \in DOMAIN tasks :
              tasks[i].status \in Handled => tasks'[i].status \in Handled
        /\ \A w \in WorkProcs :
              (work'[w].pc = "run" /\ (work[w].pc = "idle" \/ work'[w].mode # work[w].mode))
              => \A k \in DOMAIN work'[w].queue :
                    tasks'[work'[w].queue[k]].status \notin Handled
        /\ \A i \in DOMAIN composed' : composed'[i] <= 1 ]_vars

RetryStepOn(i) ==
    /\ last'.op = "process_followup"
    /\ \E w \in WorkProcs :
          /\ work[w].pc = "run"
          /\ work[w].mode = "retry"
          /\ Head(work[w].queue) = i
          /\ work'[w] # work[w]

\* C18: under any interleaving of schedule, cancel, processing requests and
\* retry, a task in done or cancelled never changes status, and a task in
\* failed changes status only through the retry operator; in particular a task
\* cancelled by cancel_for_draft is never written to done or failed by a
\* request that had already loaded it.
C18_HandledStatusesStick ==
    [][ \A i \in DOMAIN tasks :
          /\ tasks[i].status \in {"done", "cancelled"}
             => tasks'[i].status = tasks[i].status
          /\ (tasks[i].status = "failed" /\ tasks'[i].status # "failed")
             => RetryStepOn(i) ]_vars

\* C19: in every reachable state every task's status is one of scheduled,
\* done, failed, cancelled; no engine operation writes any other value.
C19_StatusOneOfFour ==
    \A i \in DOMAIN tasks :
        tasks[i].status \in {"scheduled", "done", "failed", "cancelled"}

\* The breaker is open and its open timeout has not elapsed since the last
\* recorded failure.
OpenAndWaiting ==
    /\ cb.state = "open"
    /\ cb.last_failure_time # None
    /\ Seconds(now) - cb.last_failure_time[1] < timeout_seconds

\* C20: while a circuit breaker is open and its open timeout has not elapsed
\* since the last recorded failure, every call through it fails immediately
\* with CircuitBreakerOpenError and the wrapped function is not invoked.
C20_OpenBreakerFailsFast ==
    [][ (last'.op = "call" /\ OpenAndWaiting)
          => /\ last'.outcome = "CircuitBreakerOpenError"
             /\ last'.n = 0
             /\ \A w \in WorkProcs : work'[w].pc = "in_func" => work[w].pc = "in_func"
             /\ cb' = cb ]_vars

\* A call has just been refused 59 seconds after the failure that opened the
\* breaker.
C20_Witness ==
    /\ last.op = "call"
    /\ last.outcome = "CircuitBreakerOpenError"
    /\ OpenAndWaiting
    /\ cb.failure_count >= failure_threshold
    /\ Seconds(now) - cb.last_failure_time[1] = 59

\* The state changes a breaker may make, manual reset aside.
BreakerMoves ==
    { <<"closed", "open">>, <<"open", "half_open">>,
      <<"half_open", "closed">>, <<"half_open", "open">> }

\* C21: manual reset aside, a circuit breaker changes state only along
\* closed->open, open->half_open, half_open->closed and half_open->open;
\* open->half_open happens only once the open timeout has elapsed since the
\* last failure, half_open->closed only after success_threshold successes
\* recorded in half_open (the count restarts on entering half_open), and a
\* single failure in half_open reopens the circuit.
C21_BreakerTransitions ==
    [][ last'.op # "reset"
        => /\ cb'.state # cb.state => <<cb.state, cb'.state>> \in BreakerMoves
           /\ (cb.state = "open" /\ cb'.state = "half_open")
              => /\ cb.last_failure_time # None
                 /\ Seconds(now) - cb.last_failure_time[1] >= timeout_seconds
                 /\ cb'.success_count = 0
           /\ cb.state = "half_open"
              => cb'.success_count =
                    cb.success_count
                      + (IF last'.op = "call_return" /\ last'.outcome = "ok" THEN 1 ELSE 0)
           /\ (cb.state = "half_open" /\ cb'.state = "closed")
              => cb'.success_count >= success_threshold
           /\ (cb.state = "half_open" /\ last'.op = "call_return" /\ last'.outcome = "error")
              => cb'.state = "open" ]_vars

\* The breaker has gone closed -> open -> half_open and the second success
\* recorded in half_open has just closed it.
C21_Witness ==
    /\ last.op = "call_return"
    /\ last.outcome = "ok"
    /\ cb.state = "closed"
    /\ cb.success_count = success_threshold
    /\ cb.failure_count = 0
    /\ cb.last_failure_time # None

C23_CrmLookupsFailFast ==
    [][ \A w \in WorkProcs :
          ( /\ TickStepOf(w)
            /\ runs = 1
            /\ Head(work[w].queue) = failure_threshold + 1
            /\ \A i \in 1..failure_threshold :
                  /\ tasks[i].status = "failed"
                  /\ tasks[i].error_message = Some("Odoo error") )
          => ~crm_lookup_made(drafts, tasks, Head(work[w].queue)) ]_vars

\* The tokens caller c has available at time t, after the refill the claim
\* describes: a new caller's bucket is full; otherwise requests_per_minute/60
\* tokens per second are added since the last request, up to burst_size.
AvailableAfterRefill(c, t) ==
    IF buckets[c] = None THEN burst_size * TokenUnit
    ELSE Min(burst_size * TokenUnit,
             buckets[c][1].tokens
               + ((t - buckets[c][1].last_update) * requests_per_minute) \div 60)

\* C24: per caller identity, the token bucket starts full at burst_size,
\* refills at requests_per_minute/60 tokens per second up to burst_size, and a
\* control request is admitted iff at least one token is available after the
\* refill, consuming exactly one; otherwise it is answered 429 with a
\* Retry-After of at least one second, consumes no token and the control
\* operation is not executed.  Hence the tokens stay within [0, burst_size]
\* and at most burst_size requests are admitted with no time elapsing.
C24_TokenBucketAdmission ==
    /\ [](\A c \in Clients :
            /\ admitted[c] <= burst_size
            /\ buckets[c] # None
               => /\ buckets[c][1].tokens >= 0
                  /\ buckets[c][1].tokens <= burst_size * TokenUnit)
    /\ [][ \A c \in Clients :
             (last'.op = "cancel_followups" /\ last'.target = c)
             => LET avail == AvailableAfterRefill(c, Ticks(now))
                IN  /\ buckets'[c] # None
                    /\ \A o \in Clients \ {c} : buckets'[o] = buckets[o]
                    /\ (last'.outcome # "429") <=> (avail >= TokenUnit)
                    /\ last'.outcome # "429"
                       => /\ buckets'[c][1].tokens = avail - TokenUnit
                          /\ admitted'[c] = admitted[c] + 1
                    /\ last'.outcome = "429"
                       => /\ buckets'[c][1].tokens = avail
                          /\ last'.n >= 1
                          /\ tasks' = tasks
                          /\ admitted' = admitted ]_vars

\* A caller has been admitted burst_size times at one instant and its next
\* request has just been answered 429: its bucket holds less than a token and
\* the follow-ups it asked to cancel are still scheduled, while the other
\* caller has not yet spent a token.
C24_Witness ==
    /\ last.op = "cancel_followups"
    /\ last.outcome = "429"
    /\ last.n >= 1
    /\ admitted[last.target] = burst_size
    /\ buckets[last.target][1].tokens < TokenUnit
    /\ \E o \in Clients \ {last.target} : buckets[o] = None
    /\ \E i \in DOMAIN tasks : tasks[i].status = "scheduled"

\* A day the calendar does not count: a Saturday, a Sunday or a French
\* public holiday of its year.
NotCounted(d) == Weekday(d) >= 5 \/ d \in get_french_holidays(YearOf(d))

\* The number of counted days from day a to day b, both included.
CountedDays(a, b) == Cardinality({ d \in a..b : ~NotCounted(d) })

\* The step just taken is a call add_business_days(t, n).
AddCall == last.op \in {"add_business_days", "add_business_days_back"}

\* C25: for n # 0, add_business_days(t, n) advances t by |n| business days
\* in the sign direction of n: the result is a business day, and exactly |n|
\* business days lie between t (exclusive) and the result (inclusive),
\* weekends and French public holidays not being counted, including across a
\* year boundary.
C25_AdvancesByBusinessDays ==
    (AddCall /\ last.n # 0)
    => LET t == last.target.ord
           r == last.outcome.ord
       IN  /\ ~NotCounted(r)
           /\ last.n > 0 => r > t /\ CountedDays(t + 1, r) = last.n
           /\ last.n < 0 => r < t /\ CountedDays(r, t - 1) = -last.n

\* Two business days added to Tuesday 2024-12-31 09:00: New Year's Day is
\* not counted and the result is Friday 2025-01-03, in the next year.
C25_Witness ==
    /\ last.op = "add_business_days"
    /\ last.n = 2
    /\ last.target = DateTime(DateOrd(2024, 12, 31), 9, 0, 0, 0)
    /\ last.outcome.ord = DateOrd(2025, 1, 3)
    /\ YearOf(last.outcome.ord) = YearOf(last.target.ord) + 1

\* C26: add_business_days(t, 0) returns the next business day on or after t
\* at 01:00 UTC: t's own date when it is a business day, otherwise the first
\* later business day; the result is never a Saturday, Sunday or holiday.
C26_ZeroDaysNextBusinessDay ==
    (AddCall /\ last.n = 0)
    => LET t == last.target.ord
           r == last.outcome
       IN  /\ ~NotCounted(r.ord)
           /\ r.ord >= t
           /\ CountedDays(t, r.ord - 1) = 0
           /\ r.hour = 1 /\ r.minute = 0 /\ r.second = 0 /\ r.microsecond = 0

FixedDates(y) ==
    { DateOrd(y, 1, 1), DateOrd(y, 5, 1), DateOrd(y, 5, 8), DateOrd(y, 7, 14),
      DateOrd(y, 8, 15), DateOrd(y, 11, 1), DateOrd(y, 11, 11), DateOrd(y, 12, 25) }
EasterDates(e) == { e + 1, e + 39, e + 50 }

\* C28 as stated: for every year y within 1900-2100, holidays(y) contains
\* exactly 11 distinct dates, the 8 fixed French holidays plus Easter Monday,
\* Ascension and Pentecost Monday.
C28_ElevenDistinctDates ==
    last.op = "get_french_holidays"
    => /\ last.n = 11
       /\ last.outcome = FixedDates(last.target)
                           \cup EasterDates(calculate_easter(last.target))

\* C28: for every year y within 1900-2100, holidays(y) is the set of the 8
\* fixed French holidays plus Easter Monday (Easter+1), Ascension (Easter+39)
\* and Pentecost Monday (Easter+50), Easter being a Sunday from March 22 to
\* April 25 of y (March 31 in 2024, April 20 in 2025).  The set has 11
\* distinct dates, except in the years whose Ascension falls on May 1 or
\* May 8, where it has 10.
C28_HolidaysOfTheYear ==
    last.op = "get_french_holidays"
    => LET y == last.target
           e == calculate_easter(y)
       IN  /\ Weekday(e) = 6
           /\ DateOrd(y, 3, 22) <= e /\ e <= DateOrd(y, 4, 25)
           /\ y = 2024 => e = DateOrd(2024, 3, 31)
           /\ y = 2025 => e = DateOrd(2025, 4, 20)
           /\ last.outcome = FixedDates(y) \cup EasterDates(e)
           /\ Cardinality(FixedDates(y)) = 8
           /\ Cardinality(EasterDates(e)) = 3
           /\ last.n = IF e + 39 \in {DateOrd(y, 5, 1), DateOrd(y, 5, 8)} THEN 10 ELSE 11
           /\ last.n = Cardinality(last.outcome)

\* The holidays of 2008, whose Ascension is May 1: ten dates.
C28_Witness ==
    /\ last.op = "get_french_holidays"
    /\ last.target = 2008
    /\ calculate_easter(2008) + 39 = DateOrd(2008, 5, 1)
    /\ last.n = 10
    /\ DateOrd(2008, 5, 12) \in last.outcome

\* A step of schedule_for_draft on draft d that ends with the given outcome.
ScheduleStepOf(d, outcome) ==
    /\ last'.op = "schedule_for_draft"
    /\ last'.target = d
    /\ last'.outcome = outcome

\* The batch a step of schedule_for_draft has just committed for draft d is
\* four scheduled tasks at 01:00:00 on the given days.
BatchOn(d, days) ==
    /\ Len(tasks') = Len(tasks) + 4
    /\ \A k \in 1..4 :
          /\ tasks'[Len(tasks) + k].draft_id = d
          /\ tasks'[Len(tasks) + k].status = "scheduled"
          /\ tasks'[Len(tasks) + k].scheduled_for = DateTime(days[k], 1, 0, 0, 0)

\* After a step of schedule_for_draft the draft has followups_scheduled=true
\* and four entries in followup_ids.
DraftMarked(d) ==
    /\ drafts'[d].followups_scheduled
    /\ Len(drafts'[d].followup_ids) = 4

\* C29 as stated: for a draft sent at 2024-01-08T10:00:00Z (Monday), the
\* scheduler produces four tasks at 2024-01-11T01:00Z, 2024-01-17T01:00Z,
\* 2024-01-22T01:00Z and 2024-09-20T01:00Z, and afterwards the draft has
\* followups_scheduled=true and four entries in followup_ids.
C29_MondayScheduleSeptember20 ==
    [][ \A d \in DraftIds :
          drafts[d].sent_at = Some(SentMonday)
          => /\ ScheduleStepOf(d, "batch_committed")
                => BatchOn(d, << DateOrd(2024, 1, 11), DateOrd(2024, 1, 17),
                                 DateOrd(2024, 1, 22), DateOrd(2024, 9, 20) >>)
             /\ ScheduleStepOf(d, "scheduled") => DraftMarked(d) ]_vars

\* C29: for a draft sent at 2024-01-08T10:00:00Z (Monday), the scheduler
\* produces four tasks at 2024-01-11T01:00Z, 2024-01-17T01:00Z,
\* 2024-01-22T01:00Z and 2024-09-24T01:00Z (six holidays fall on weekdays
\* within the 180 business days), and afterwards the draft has
\* followups_scheduled=true and four entries in followup_ids.
C29_MondaySchedule ==
    [][ \A d \in DraftIds :
          drafts[d].sent_at = Some(SentMonday)
          => /\ ScheduleStepOf(d, "batch_committed")
                => BatchOn(d, << DateOrd(2024, 1, 11), DateOrd(2024, 1, 17),
                                 DateOrd(2024, 1, 22), DateOrd(2024, 9, 24) >>)
             /\ ScheduleStepOf(d, "scheduled") => DraftMarked(d) ]_vars

\* The Monday draft has just been scheduled: its four tasks stand at the four
\* dates and the draft carries the flag and the four ids.
C29_Witness ==
    /\ last.op = "schedule_for_draft"
    /\ last.outcome = "scheduled"
    /\ last.target = "d1"
    /\ drafts["d1"].sent_at = Some(SentMonday)
    /\ drafts["d1"].followups_scheduled
    /\ drafts["d1"].followup_ids = <<1, 2, 3, 4>>
    /\ Len(tasks) = 4
    /\ tasks[1].scheduled_for = DateTime(DateOrd(2024, 1, 11), 1, 0, 0, 0)
    /\ tasks[4].scheduled_for = DateTime(DateOrd(2024, 9, 24), 1, 0, 0, 0)
    /\ tasks[4].days_after_initial = 180

\* C30 as stated: for a draft sent at 2024-12-20T09:00:00Z (the Friday before
\* Christmas), the J+3 task skips the Dec 25 holiday and is scheduled for
\* 2024-12-27T01:00Z.
C30_FridayFirstTaskDecember27 ==
    [][ \A d \in DraftIds :
          (drafts[d].sent_at = Some(SentFriday) /\ ScheduleStepOf(d, "batch_committed"))
          => /\ tasks'[Len(tasks) + 1].days_after_initial = 3
             /\ tasks'[Len(tasks) + 1].scheduled_for
                  = DateTime(DateOrd(2024, 12, 27), 1, 0, 0, 0) ]_vars

\* C30: for a draft sent at 2024-12-20T09:00:00Z (the Friday before
\* Christmas), the J+3 task is scheduled for 2024-12-26T01:00Z: the three
\* business days are Monday 23, Tuesday 24 and Thursday 26, the Dec 25
\* holiday being skipped, and no task of the draft falls on Dec 25.
C30_FridayFirstTaskSkipsChristmas ==
    [][ \A d \in DraftIds :
          (drafts[d].sent_at = Some(SentFriday) /\ ScheduleStepOf(d, "batch_committed"))
          => /\ tasks'[Len(tasks) + 1].days_after_initial = 3
             /\ tasks'[Len(tasks) + 1].scheduled_for
                  = DateTime(DateOrd(2024, 12, 26), 1, 0, 0, 0)
             /\ \A k \in 1..4 :
                   tasks'[Len(tasks) + k].scheduled_for.ord # DateOrd(2024, 12, 25) ]_vars

\* The batch of the Friday draft has just been committed; its J+3 task stands
\* on Thursday 2024-12-26, the day after Christmas.
C30_Witness ==
    /\ last.op = "schedule_for_draft"
    /\ last.outcome = "batch_committed"
    /\ last.target = "d1"
    /\ drafts["d1"].sent_at = Some(SentFriday)
    /\ Len(tasks) = 4
    /\ tasks[1].days_after_initial = 3
    /\ tasks[1].scheduled_for = DateTime(DateOrd(2024, 12, 26), 1, 0, 0, 0)
    /\ DateOrd(2024, 12, 25) \in get_french_holidays(2024)

\* A second sync, a second flag repair, a second mark-done with the same
\* list leaves the store as the first left it.
SyncTwice ==
    last'.op = "sync_missing_followup_ids"
    => sync_missing_followup_ids(drafts', tasks') = drafts'
FlagsTwice ==
    last'.op = "update_missing_followups_scheduled_flags"
    => update_missing_followups_scheduled_flags(drafts') = drafts'
MarkDoneTwice ==
    \A ids \in RepairRequests :
       (last'.op = "mark_followups_done" /\ tasks' = mark_each_done(tasks, ids))
       => mark_each_done(tasks', ids) = tasks'

\* The shift request just served named a task that was in scheduled.
ShiftedSome(ids) ==
    \E j \in DOMAIN ids :
       ids[j] \in DOMAIN tasks /\ tasks[ids[j]].status = "scheduled"

C32_SyncRepairsDrafts ==
    [][ last'.op = "sync_missing_followup_ids"
        => \A d \in DraftIds :
              /\ (drafts[d].exists /\ TasksOf(d) # {} /\ drafts[d].followup_ids = <<>>)
                 => /\ Len(drafts'[d].followup_ids) = Cardinality(TasksOf(d))
                    /\ { drafts'[d].followup_ids[k] :
                           k \in DOMAIN drafts'[d].followup_ids } = TasksOf(d)
                    /\ drafts'[d].followups_scheduled
                    /\ drafts'[d].status = drafts[d].status
                    /\ drafts'[d].sent_at = drafts[d].sent_at
              /\ drafts[d].followup_ids # <<>> => drafts'[d] = drafts[d]
              /\ (~drafts[d].exists \/ TasksOf(d) = {}) => drafts'[d] = drafts[d] ]_vars

\* A sync has just repaired draft d1: no scheduling request is in flight, so
\* the draft had its tasks without their ids because the draft update of
\* schedule_for_draft had failed; some of its tasks are cancelled by now.
C32_Witness ==
    /\ last.op = "sync_missing_followup_ids"
    /\ last.n = 1
    /\ \A p \in SchedProcs : sched[p].pc = "idle"
    /\ Len(tasks) = 4
    /\ drafts["d1"].followup_ids = <<1, 2, 3, 4>>
    /\ drafts["d1"].followups_scheduled
    /\ tasks[1].status = "cancelled"

\* C33: in every reachable state, a task has error_message populated only if
\* its status is failed: a task that leaves failed (through retry followed by
\* success, or through mark-done) no longer carries an error_message.
C33_ErrorMessageOnlyWhenFailed ==
    \A i \in DOMAIN tasks :
       tasks[i].error_message # None => tasks[i].status = "failed"

\* Task i is named by the list ids.
Listed(ids, i) == \E j \in DOMAIN ids : ids[j] = i

\* C34: shift-followups with a non-zero days_shift changes only the
\* scheduled_for of the listed tasks whose status is scheduled, setting it to
\* add_business_days(scheduled_for, days_shift); listed tasks in any other
\* status and unknown ids are skipped, and no task's status is changed by the
\* operation.
C34_ShiftMovesOnlyListedScheduled ==
    [][ \A ids \in RepairRequests, k \in RepairDays :
          (last'.op = "shift_followups" /\ tasks' = shift_each(tasks, ids, k))
          => /\ k # 0
             /\ DOMAIN tasks' = DOMAIN tasks
             /\ drafts' = drafts
             /\ \A i \in DOMAIN tasks :
                   /\ tasks'[i].status = tasks[i].status
                   /\ IF Listed(ids, i) /\ tasks[i].status = "scheduled"
                      THEN tasks'[i] = [tasks[i] EXCEPT !.scheduled_for =
                                           add_business_days(tasks[i].scheduled_for, k)]
                      ELSE tasks'[i] = tasks[i]
             /\ last'.n = Cardinality({ i \in DOMAIN tasks :
                              Listed(ids, i) /\ tasks[i].status = "scheduled" }) ]_vars

\* The one shift served so far named task 1, marked done before, and task 2,
\* in scheduled: task 2 alone has moved and task 1 is still done at its date.
C34_Witness ==
    /\ last.op = "shift_followups"
    /\ last.n = 1
    /\ shifts = 1
    /\ Len(tasks) = 4
    /\ drafts["d1"].sent_at = Some(SentFriday)
    /\ tasks[1].status = "done"
    /\ tasks[1].scheduled_for = followup_dates[SentFriday][1]
    /\ tasks[2].status = "scheduled"
    /\ tasks[2].scheduled_for = add_business_days(followup_dates[SentFriday][2], 3)
    /\ tasks[3].scheduled_for = followup_dates[SentFriday][3]
    /\ tasks[4].scheduled_for = followup_dates[SentFriday][4]

\* C35: retry_all_failed affects only tasks whose status is failed: each such
\* task is reset and reprocessed and ends the operation in done or failed
\* (never left in an intermediate status), while tasks in scheduled, done or
\* cancelled are left unchanged.
C35_RetryEndsDoneOrFailed ==
    [][ /\ last'.op = "retry_all_failed" => tasks' = tasks
        /\ \A i \in DOMAIN tasks :
              RetryStepOn(i)
              => /\ tasks[i].status = "failed"
                 /\ tasks'[i].status \in {"done", "failed"}
                 /\ \A j \in DOMAIN tasks \ {i} : tasks'[j] = tasks[j] ]_vars

\* C36: if ticks keep occurring (fairness on process_due_followups) and every
\* external call eventually returns, every task in scheduled whose
\* scheduled_for has passed eventually reaches done, failed or cancelled: no
\* due task stays scheduled forever, and no single task prevents the other
\* due tasks of every tick from being processed.
C36_DueTaskEventuallyHandled ==
    \A i \in 1..Len(schedule_days) :
       (i \in DOMAIN tasks /\ tasks[i].status = "scheduled" /\ Due(i))
       ~> (tasks[i].status \in Handled)

\* Task i is the 180-day task of a draft whose prospect replied, cancel_for_draft
\* has run for the draft (a short-term task of it is cancelled), and the task
\* is due.
LongTermAfterReply(i) ==
    /\ tasks[i].days_after_initial = 180
    /\ drafts[tasks[i].draft_id].exists
    /\ drafts[tasks[i].draft_id].has_reply
    /\ \E j \in TasksOf(tasks[i].draft_id) :
          tasks[j].days_after_initial # 180 /\ tasks[j].status = "cancelled"
    /\ Due(i)

\* C37: for a draft whose prospect replied (has_reply=true) and whose 180-day
\* task was kept in scheduled by cancel_for_draft, when that task becomes due
\* the processor invokes the composer for it and moves it to done: the
\* long-term re-engagement attempt is still made after a reply and is not
\* cancelled by the processor's reply check.
C37_LongTermAttemptAfterReply ==
    /\ [](\A i \in DOMAIN tasks :
            LongTermAfterReply(i) => tasks[i].status # "cancelled")
    /\ [][ \A w \in WorkProcs, i \in DOMAIN tasks :
             ( /\ LongTermAfterReply(i)
               /\ tasks[i].status = "scheduled"
               /\ TickStepOf(w)
               /\ last'.target = i
               /\ last'.n = 1
               /\ last'.outcome # "failed" )
             => /\ tasks'[i].status = "done"
                /\ Composed(i) = 0
                /\ composed'[i] = 1 ]_vars

\* C38: in the closed state a circuit breaker opens exactly when
\* failure_threshold consecutive failures have been recorded: a success
\* recorded in closed resets the failure count to zero, so failures separated
\* by a success never add up to open the circuit.
C38_ClosedOpensOnConsecutiveFailures ==
    /\ [](cb.state = "closed" => cb.failure_count < failure_threshold)
    /\ [][ cb.state = "closed"
           => /\ (last'.op = "call_return" /\ last'.outcome = "ok")
                 => cb'.state = "closed" /\ cb'.failure_count = 0
              /\ (last'.op = "call_return" /\ last'.outcome = "error")
                 => /\ cb'.failure_count = cb.failure_count + 1
                    /\ cb'.state = IF cb.failure_count + 1 = failure_threshold
                                   THEN "open" ELSE "closed"
              /\ last'.op \notin {"call_return", "reset"} => cb' = cb
              /\ cb'.state # "closed"
                 => /\ cb'.state = "open"
                    /\ last'.op = "call_return"
                    /\ last'.outcome = "error"
                    /\ cb.failure_count = failure_threshold - 1 ]_vars

\* A success has just been recorded in closed by a breaker that recorded a
\* failure since its creation and never opened: its failure count is zero.
C38_Witness ==
    /\ last.op = "call_return"
    /\ last.outcome = "ok"
    /\ cb.state = "closed"
    /\ cb.failure_count = 0
    /\ cb.success_count = 0
    /\ cb.last_failure_time # None

\* C39: when several requests of one caller are handled concurrently, the
\* requests admitted never exceed the tokens of the caller's bucket, at most
\* burst_size while the clock stands still: no two requests are admitted on
\* the same token and the token count never becomes negative.
C39_ConcurrentAdmissionsWithinTokens ==
    \A c \in Clients :
        /\ admitted[c] <= burst_size
        /\ buckets[c] # None => buckets[c][1].tokens >= 0

=============================================================================
